---------------------------- MODULE Spec2Model ----------------------------
(***************************************************************************)
(* Reservation engine of ReservasSalas: the Reserva entity, the in-memory  *)
(* ReservaRepository and ReservaServiceImpl, with service calls running as *)
(* concurrent tasks whose repository calls are the atomic steps.           *)
(***************************************************************************)
EXTENDS Integers, Sequences, FiniteSets, TLC

(***************************************************************************)
(* Bounds of the model.                                                    *)
(***************************************************************************)
\* Instants are multiples of the minimum duration, 0..MaxSlot of them.
MaxSlot == 2
\* Number of identifiers Uuid::new_v4 hands out in one behaviour.
MaxReservas == 2

(***************************************************************************)
(* Program constants.                                                      *)
(***************************************************************************)
MinDuracionMinutos == 15
MaxDuracionHoras == 8
MaxDuracionMinutos == MaxDuracionHoras * 60

Hilos == {"h1", "h2"}

Instantes == {k * MinDuracionMinutos : k \in 0..MaxSlot}
Ids == 1..MaxReservas

(***************************************************************************)
(* External lookups: the room and user repositories the service reads.     *)
(***************************************************************************)
SalasRegistradas ==
    [sala1 |-> [id |-> "sala1", activa |-> TRUE],
     sala2 |-> [id |-> "sala2", activa |-> TRUE],
     sala3 |-> [id |-> "sala3", activa |-> FALSE]]

UsuariosRegistrados ==
    [usuario1 |-> [id |-> "usuario1", activo |-> TRUE],
     usuario2 |-> [id |-> "usuario2", activo |-> FALSE]]

\* Identifiers a caller may pass: a room of each kind (active, inactive,
\* unknown) and a user of each kind (active, deactivated, unknown).
SalaIds == {"sala1", "sala3", "sala9"}
UsuarioIds == {"usuario1", "usuario2", "usuario9"}

SalaObtener(id) ==
    IF id \in DOMAIN SalasRegistradas THEN {SalasRegistradas[id]} ELSE {}

UsuarioObtener(id) ==
    IF id \in DOMAIN UsuariosRegistrados THEN {UsuariosRegistrados[id]} ELSE {}

(***************************************************************************)
(* Reserva entity.                                                         *)
(***************************************************************************)
Estados == {"Activa", "Cancelada", "Completada"}

\* str::trim().is_empty() over the identifiers of the model.
TrimEsVacio(s) == s \in {"", " "}

MsgSalaVacia == "El ID de sala no puede estar vacío"
MsgUsuarioVacio == "El ID de usuario no puede estar vacío"
MsgInicioPasado == "La fecha de inicio no puede ser en el pasado"
MsgFinPasado == "La fecha de fin no puede ser en el pasado"
MsgFinAnterior == "La fecha de fin debe ser posterior a la fecha de inicio"
MsgDuracion == "La duración de la reserva debe ser entre 15 minutos y 8 horas"
MsgSalaNoExiste == "La sala no existe"
MsgSalaInactiva == "La sala no está activa"
MsgUsuarioNoExiste == "El usuario no existe"
MsgNoDisponible == "La sala no está disponible en el horario solicitado"
MsgSoloCancelarActivas == "Solo se pueden cancelar reservas activas"
MsgSoloCompletarActivas == "Solo se pueden completar reservas activas"

FromExisting(id, sala_id, usuario_id, fecha_inicio, fecha_fin, estado, created_at) ==
    [id |-> id, sala_id |-> sala_id, usuario_id |-> usuario_id,
     fecha_inicio |-> fecha_inicio, fecha_fin |-> fecha_fin,
     estado |-> estado, created_at |-> created_at]

\* Mutant: Reserva::new stops at the first violated rule.
MutErroresDeNewPrimera(sala_id, usuario_id, fecha_inicio, fecha_fin, now) ==
    IF TrimEsVacio(sala_id) THEN <<MsgSalaVacia>>
    ELSE IF TrimEsVacio(usuario_id) THEN <<MsgUsuarioVacio>>
    ELSE IF fecha_inicio < now THEN <<MsgInicioPasado>>
    ELSE IF fecha_fin < now THEN <<MsgFinPasado>>
    ELSE IF fecha_fin <= fecha_inicio THEN <<MsgFinAnterior>>
    ELSE IF \/ fecha_fin - fecha_inicio < MinDuracionMinutos
            \/ fecha_fin - fecha_inicio > MaxDuracionMinutos
    THEN <<MsgDuracion>> ELSE <<>>

\* Mutant: Reserva::new with exclusive duration bounds.
MutErroresDeNewEstricta(sala_id, usuario_id, fecha_inicio, fecha_fin, now) ==
    (IF TrimEsVacio(sala_id) THEN <<MsgSalaVacia>> ELSE <<>>)
    \o (IF TrimEsVacio(usuario_id) THEN <<MsgUsuarioVacio>> ELSE <<>>)
    \o (IF fecha_inicio < now THEN <<MsgInicioPasado>> ELSE <<>>)
    \o (IF fecha_fin < now THEN <<MsgFinPasado>> ELSE <<>>)
    \o (IF fecha_fin <= fecha_inicio THEN <<MsgFinAnterior>> ELSE <<>>)
    \o (IF \/ fecha_fin - fecha_inicio <= MinDuracionMinutos
           \/ fecha_fin - fecha_inicio >= MaxDuracionMinutos
        THEN <<MsgDuracion>> ELSE <<>>)

\* Mutant: Reserva::new without the rules on the order of the dates and on
\* the duration.
MutErroresDeNewSinDuracion(sala_id, usuario_id, fecha_inicio, fecha_fin, now) ==
    (IF TrimEsVacio(sala_id) THEN <<MsgSalaVacia>> ELSE <<>>)
    \o (IF TrimEsVacio(usuario_id) THEN <<MsgUsuarioVacio>> ELSE <<>>)
    \o (IF fecha_inicio < now THEN <<MsgInicioPasado>> ELSE <<>>)
    \o (IF fecha_fin < now THEN <<MsgFinPasado>> ELSE <<>>)

\* The list of violated rules Reserva::new collects, in the order it pushes them.
ErroresDeNew(sala_id, usuario_id, fecha_inicio, fecha_fin, now) ==
    (IF TrimEsVacio(sala_id) THEN <<MsgSalaVacia>> ELSE <<>>)
    \o (IF TrimEsVacio(usuario_id) THEN <<MsgUsuarioVacio>> ELSE <<>>)
    \o (IF fecha_inicio < now THEN <<MsgInicioPasado>> ELSE <<>>)
    \o (IF fecha_fin < now THEN <<MsgFinPasado>> ELSE <<>>)
    \o (IF fecha_fin <= fecha_inicio THEN <<MsgFinAnterior>> ELSE <<>>)
    \o (IF \/ fecha_fin - fecha_inicio < MinDuracionMinutos
           \/ fecha_fin - fecha_inicio > MaxDuracionMinutos
        THEN <<MsgDuracion>> ELSE <<>>)

\* Reserva::new: Err(Validacion(errores)) or Ok(reserva) with a fresh uuid.
ReservaNew(sala_id, usuario_id, fecha_inicio, fecha_fin, now, uuid) ==
    LET errores == ErroresDeNew(sala_id, usuario_id, fecha_inicio, fecha_fin, now)
    IN IF errores # <<>>
       THEN [ok |-> FALSE, errores |-> errores, reserva |-> {}]
       ELSE [ok |-> TRUE, errores |-> <<>>,
             reserva |-> {FromExisting(uuid, sala_id, usuario_id, fecha_inicio,
                                       fecha_fin, "Activa", now)}]

EstaActiva(r) == r.estado = "Activa"

\* Mutant: cancelar leaves the status as it is.
MutCancelarSinCambio(r) == r

Cancelar(r) == [r EXCEPT !.estado = "Cancelada"]

Completar(r) == [r EXCEPT !.estado = "Completada"]

\* Mutant: se_solapa_con over closed intervals.
MutSeSolapaConCerrado(a, otra) ==
    IF a.sala_id # otra.sala_id THEN FALSE
    ELSE IF ~EstaActiva(a) \/ ~EstaActiva(otra) THEN FALSE
    ELSE a.fecha_inicio <= otra.fecha_fin /\ otra.fecha_inicio <= a.fecha_fin

\* Mutant: se_solapa_con looks at the status of self only.
MutSeSolapaConSoloSelf(a, otra) ==
    IF a.sala_id # otra.sala_id THEN FALSE
    ELSE IF ~EstaActiva(a) THEN FALSE
    ELSE a.fecha_inicio < otra.fecha_fin /\ otra.fecha_inicio < a.fecha_fin

\* Mutant: se_solapa_con without the room comparison.
MutSeSolapaConSinSala(a, otra) ==
    IF ~EstaActiva(a) \/ ~EstaActiva(otra) THEN FALSE
    ELSE a.fecha_inicio < otra.fecha_fin /\ otra.fecha_inicio < a.fecha_fin

SeSolapaCon(a, otra) ==
    IF a.sala_id # otra.sala_id THEN FALSE
    ELSE IF ~EstaActiva(a) \/ ~EstaActiva(otra) THEN FALSE
    ELSE a.fecha_inicio < otra.fecha_fin /\ otra.fecha_inicio < a.fecha_fin

(***************************************************************************)
(* State.                                                                  *)
(***************************************************************************)
VARIABLES
    reservas,    \* the repository map: id -> Reserva
    ahora,       \* Utc::now(); the clock stands still in the behaviours below
    uuids,       \* number of identifiers Uuid::new_v4 has produced
    pc,          \* per task: the await point it is suspended at
    llamada,     \* per task: the operation and arguments of its current/last call
    reserva,     \* per task: the local `reserva` of the call in progress
    resultado,   \* per task: what its last call returned
    exitos,      \* per id: lifecycle calls that returned Ok (history)
    repo,        \* the repository implementation in use: "InMemory" or "File"
    archivo,     \* the backing file of the file repository
    copia,       \* per task: the map a file operation holds outside the lock
    candado      \* the RwLock of the map: its writer and its readers

vars == <<reservas, ahora, uuids, pc, llamada, reserva, resultado, exitos,
          repo, archivo, copia, candado>>

(***************************************************************************)
(* The backing file and serde_json over ReservasData.                      *)
(***************************************************************************)
\* Mutant: the status is not written, every reservation is read back Activa.
MutSerializarReservaSinEstado(r) ==
    <<r.id, r.sala_id, r.usuario_id, r.fecha_inicio, r.fecha_fin, "Activa",
      r.created_at>>

\* A Reserva as the JSON object serde derives: its seven fields in order.
SerializarReserva(r) ==
    <<r.id, r.sala_id, r.usuario_id, r.fecha_inicio, r.fecha_fin, r.estado,
      r.created_at>>

DeserializarReserva(j) ==
    [id |-> j[1], sala_id |-> j[2], usuario_id |-> j[3], fecha_inicio |-> j[4],
     fecha_fin |-> j[5], estado |-> j[6], created_at |-> j[7]]

\* serde_json::to_string_pretty(&ReservasData { reservas }): one object per key.
Serializar(mapa) == [k \in DOMAIN mapa |-> SerializarReserva(mapa[k])]

\* serde_json::from_str::<ReservasData>(..).reservas
Deserializar(json) == [k \in DOMAIN json |-> DeserializarReserva(json[k])]

\* States of the file: absent, present but unreadable, present with text that
\* does not parse, present with the JSON of a map.
SinArchivo == [estado |-> "NoExiste", datos |-> <<>>]
ArchivoIlegible == [estado |-> "Ilegible", datos |-> <<>>]
ArchivoCorrupto == [estado |-> "Corrupto", datos |-> <<>>]
ArchivoJson(mapa) == [estado |-> "Json", datos |-> Serializar(mapa)]

\* Steps of the service, the entity and the queries do not touch the file.
\* The RwLock with no guard alive.
SinCandado == [escritor |-> "", lectores |-> {}]

SinTocarArchivo == UNCHANGED <<repo, archivo, copia, candado>>

(***************************************************************************)
(* In-memory repository: each operation runs under the map's lock.         *)
(***************************************************************************)
\* Mutant: guardar replaces the whole map by the new entry.
MutRepoGuardar(mapa, r) == (r.id :> r)

RepoGuardar(mapa, r) == (r.id :> r) @@ mapa

RepoObtener(mapa, id) == IF id \in DOMAIN mapa THEN {mapa[id]} ELSE {}

\* Mutant: the range query keeps only reservations contained in the range.
MutRepoListarPorSalaYRango(mapa, sala_id, inicio, fin) ==
    {mapa[i] : i \in {j \in DOMAIN mapa :
        /\ mapa[j].sala_id = sala_id
        /\ EstaActiva(mapa[j])
        /\ mapa[j].fecha_inicio >= inicio
        /\ mapa[j].fecha_fin <= fin}}

\* Mutant: the range query without the status filter.
MutRepoListarSinEstado(mapa, sala_id, inicio, fin) ==
    {mapa[i] : i \in {j \in DOMAIN mapa :
        /\ mapa[j].sala_id = sala_id
        /\ mapa[j].fecha_inicio < fin
        /\ mapa[j].fecha_fin > inicio}}

\* Mutant: the filter keeps only reservations that start inside the range.
MutRepoListarDesdeInicio(mapa, sala_id, inicio, fin) ==
    {mapa[i] : i \in {j \in DOMAIN mapa :
        /\ mapa[j].sala_id = sala_id
        /\ EstaActiva(mapa[j])
        /\ mapa[j].fecha_inicio < fin
        /\ mapa[j].fecha_inicio >= inicio}}

RepoListarPorSalaYRango(mapa, sala_id, inicio, fin) ==
    {mapa[i] : i \in {j \in DOMAIN mapa :
        /\ mapa[j].sala_id = sala_id
        /\ EstaActiva(mapa[j])
        /\ mapa[j].fecha_inicio < fin
        /\ mapa[j].fecha_fin > inicio}}

\* Mutant: actualizar replaces the whole map by the updated entry.
MutRepoActualizar(mapa, r) ==
    IF r.id \in DOMAIN mapa
    THEN [tipo |-> "Ok", mapa |-> (r.id :> r)]
    ELSE [tipo |-> "NoEncontrada", mapa |-> mapa]

\* Mutant: eliminar of a stored id empties the map.
MutRepoEliminarTodo(mapa, id) ==
    IF id \in DOMAIN mapa
    THEN [tipo |-> "Ok", mapa |-> <<>>]
    ELSE [tipo |-> "NoEncontrada", mapa |-> mapa]

\* eliminar: Ok with the entry removed, or NoEncontrada with the map as it was.
RepoEliminar(mapa, id) ==
    IF id \in DOMAIN mapa
    THEN [tipo |-> "Ok", mapa |-> [k \in DOMAIN mapa \ {id} |-> mapa[k]]]
    ELSE [tipo |-> "NoEncontrada", mapa |-> mapa]

\* listar, listar_por_sala, listar_por_usuario: the same code in both
\* implementations, over the map or the cache.
RepoListar(mapa) == {mapa[i] : i \in DOMAIN mapa}

RepoListarPorSala(mapa, sala_id) ==
    {mapa[i] : i \in {j \in DOMAIN mapa : mapa[j].sala_id = sala_id}}

RepoListarPorUsuario(mapa, usuario_id) ==
    {mapa[i] : i \in {j \in DOMAIN mapa : mapa[j].usuario_id = usuario_id}}

\* FileReservaRepository::listar_por_sala_y_rango over its cache.
FileListarPorSalaYRango(cache, sala_id, inicio, fin) ==
    {cache[i] : i \in {j \in DOMAIN cache :
        /\ cache[j].sala_id = sala_id
        /\ EstaActiva(cache[j])
        /\ cache[j].fecha_inicio < fin
        /\ cache[j].fecha_fin > inicio}}

\* Mutant: actualizar inserts the entry when the id is absent.
MutRepoActualizarUpsert(mapa, r) == [tipo |-> "Ok", mapa |-> (r.id :> r) @@ mapa]

\* actualizar: Ok with the entry replaced, or NoEncontrada with the map as it was.
RepoActualizar(mapa, r) ==
    IF r.id \in DOMAIN mapa
    THEN [tipo |-> "Ok", mapa |-> (r.id :> r) @@ mapa]
    ELSE [tipo |-> "NoEncontrada", mapa |-> mapa]

(***************************************************************************)
(* Results of service calls.                                               *)
(***************************************************************************)
Ok(r) == [reserva |-> {r}, tipo |-> "Ok", mensajes |-> <<>>]
Validacion(msgs) == [reserva |-> {}, tipo |-> "Validacion", mensajes |-> msgs]
NoEncontrada == [reserva |-> {}, tipo |-> "NoEncontrada", mensajes |-> <<>>]
SinResultado == [reserva |-> {}, tipo |-> "Pendiente", mensajes |-> <<>>]

LlamadaCrear(sala_id, usuario_id, fecha_inicio, fecha_fin) ==
    [id |-> 0, sala_id |-> sala_id, usuario_id |-> usuario_id,
     fecha_inicio |-> fecha_inicio, fecha_fin |-> fecha_fin, op |-> "crear_reserva"]
LlamadaPorId(op, id) ==
    [id |-> id, sala_id |-> "", usuario_id |-> "",
     fecha_inicio |-> 0, fecha_fin |-> 0, op |-> op]
SinLlamada == LlamadaPorId("ninguna", 0)

Init ==
    /\ reservas = <<>>
    /\ ahora = 0
    /\ uuids = 0
    /\ pc = [h \in Hilos |-> "libre"]
    /\ llamada = [h \in Hilos |-> SinLlamada]
    /\ reserva = [h \in Hilos |-> {}]
    /\ resultado = [h \in Hilos |-> SinResultado]
    /\ exitos = [i \in Ids |-> 0]
    /\ repo = "InMemory"
    /\ archivo = SinArchivo
    /\ copia = [h \in Hilos |-> <<>>]
    /\ candado = SinCandado

\* A caller invokes a service operation on a free task: the future holds the
\* arguments and has not run yet.
Invocar(h, ll) ==
    /\ pc[h] = "libre"
    /\ pc' = [pc EXCEPT ![h] = "inicio"]
    /\ llamada' = [llamada EXCEPT ![h] = ll]
    /\ reserva' = [reserva EXCEPT ![h] = {}]
    /\ resultado' = [resultado EXCEPT ![h] = SinResultado]
    /\ UNCHANGED <<reservas, ahora, uuids, exitos>>
    /\ SinTocarArchivo

\* A call returns: the task is free again, its arguments and locals are dropped.
Retorna(h, res) ==
    /\ pc' = [pc EXCEPT ![h] = "libre"]
    /\ llamada' = [llamada EXCEPT ![h] = SinLlamada]
    /\ reserva' = [reserva EXCEPT ![h] = {}]
    /\ resultado' = [resultado EXCEPT ![h] = res]
    /\ SinTocarArchivo

\* A call suspends at the next await point.
Sigue(h, punto, local) ==
    /\ pc' = [pc EXCEPT ![h] = punto]
    /\ reserva' = [reserva EXCEPT ![h] = local]
    /\ UNCHANGED <<llamada, resultado>>
    /\ SinTocarArchivo

(***************************************************************************)
(* ReservaServiceImpl::crear_reserva                                       *)
(***************************************************************************)
\* Mutant: crear_reserva without the user lookup.
MutCrearReserva(h) ==
    /\ pc[h] = "inicio"
    /\ llamada[h].op = "crear_reserva"
    /\ LET sala_id == llamada[h].sala_id
           sala == SalaObtener(sala_id)
           nueva == ReservaNew(sala_id, llamada[h].usuario_id, llamada[h].fecha_inicio,
                               llamada[h].fecha_fin, ahora, uuids + 1)
       IN IF sala = {}
          THEN Retorna(h, Validacion(<<MsgSalaNoExiste>>)) /\ UNCHANGED uuids
          ELSE IF \E s \in sala : ~s.activa
          THEN Retorna(h, Validacion(<<MsgSalaInactiva>>)) /\ UNCHANGED uuids
          ELSE IF ~nueva.ok
          THEN Retorna(h, Validacion(nueva.errores)) /\ UNCHANGED uuids
          ELSE /\ uuids' = uuids + 1
               /\ Sigue(h, "verificar", nueva.reserva)
    /\ UNCHANGED <<reservas, ahora, exitos>>

\* Mutant: crear_reserva without the check that the room is active.
MutCrearReservaSinActiva(h) ==
    /\ pc[h] = "inicio"
    /\ llamada[h].op = "crear_reserva"
    /\ LET sala_id == llamada[h].sala_id
           usuario_id == llamada[h].usuario_id
           sala == SalaObtener(sala_id)
           usuario == UsuarioObtener(usuario_id)
           nueva == ReservaNew(sala_id, usuario_id, llamada[h].fecha_inicio,
                               llamada[h].fecha_fin, ahora, uuids + 1)
       IN IF sala = {}
          THEN Retorna(h, Validacion(<<MsgSalaNoExiste>>)) /\ UNCHANGED uuids
          ELSE IF usuario = {}
          THEN Retorna(h, Validacion(<<MsgUsuarioNoExiste>>)) /\ UNCHANGED uuids
          ELSE IF ~nueva.ok
          THEN Retorna(h, Validacion(nueva.errores)) /\ UNCHANGED uuids
          ELSE /\ uuids' = uuids + 1
               /\ Sigue(h, "verificar", nueva.reserva)
    /\ UNCHANGED <<reservas, ahora, exitos>>

\* Mutant: crear_reserva with the entity rules checked before the lookups.
MutCrearReservaOrden(h) ==
    /\ pc[h] = "inicio"
    /\ llamada[h].op = "crear_reserva"
    /\ LET sala_id == llamada[h].sala_id
           usuario_id == llamada[h].usuario_id
           sala == SalaObtener(sala_id)
           usuario == UsuarioObtener(usuario_id)
           nueva == ReservaNew(sala_id, usuario_id, llamada[h].fecha_inicio,
                               llamada[h].fecha_fin, ahora, uuids + 1)
       IN IF ~nueva.ok
          THEN Retorna(h, Validacion(nueva.errores)) /\ UNCHANGED uuids
          ELSE IF sala = {}
          THEN Retorna(h, Validacion(<<MsgSalaNoExiste>>)) /\ UNCHANGED uuids
          ELSE IF \E s \in sala : ~s.activa
          THEN Retorna(h, Validacion(<<MsgSalaInactiva>>)) /\ UNCHANGED uuids
          ELSE IF usuario = {}
          THEN Retorna(h, Validacion(<<MsgUsuarioNoExiste>>)) /\ UNCHANGED uuids
          ELSE /\ uuids' = uuids + 1
               /\ Sigue(h, "verificar", nueva.reserva)
    /\ UNCHANGED <<reservas, ahora, exitos>>

\* Up to Reserva::new: room lookup, room active, user lookup, entity rules.
CrearReserva(h) ==
    /\ pc[h] = "inicio"
    /\ llamada[h].op = "crear_reserva"
    /\ LET sala_id == llamada[h].sala_id
           usuario_id == llamada[h].usuario_id
           sala == SalaObtener(sala_id)
           usuario == UsuarioObtener(usuario_id)
           nueva == ReservaNew(sala_id, usuario_id, llamada[h].fecha_inicio,
                               llamada[h].fecha_fin, ahora, uuids + 1)
       IN IF sala = {}
          THEN Retorna(h, Validacion(<<MsgSalaNoExiste>>)) /\ UNCHANGED uuids
          ELSE IF \E s \in sala : ~s.activa
          THEN Retorna(h, Validacion(<<MsgSalaInactiva>>)) /\ UNCHANGED uuids
          ELSE IF usuario = {}
          THEN Retorna(h, Validacion(<<MsgUsuarioNoExiste>>)) /\ UNCHANGED uuids
          ELSE IF ~nueva.ok
          THEN Retorna(h, Validacion(nueva.errores)) /\ UNCHANGED uuids
          ELSE /\ uuids' = uuids + 1
               /\ Sigue(h, "verificar", nueva.reserva)
    /\ UNCHANGED <<reservas, ahora, exitos>>

\* Mutant: verificar_disponibilidad builds its transient reserva for a room
\* named "temp".
MutDisponible(mapa, sala_id, fecha_inicio, fecha_fin, now) ==
    LET candidatas == RepoListarPorSalaYRango(mapa, sala_id, fecha_inicio, fecha_fin)
        reserva_temporal == FromExisting(0, "temp", "temp_user", fecha_inicio,
                                         fecha_fin, "Activa", now)
    IN ~(\E r \in candidatas : SeSolapaCon(reserva_temporal, r))

\* Mutant: verificar_disponibilidad answers true for an empty interval.
MutDisponibleValida(mapa, sala_id, fecha_inicio, fecha_fin, now) ==
    LET candidatas == RepoListarPorSalaYRango(mapa, sala_id, fecha_inicio, fecha_fin)
        reserva_temporal == FromExisting(0, sala_id, "temp_user", fecha_inicio,
                                         fecha_fin, "Activa", now)
    IN \/ fecha_inicio >= fecha_fin
       \/ ~(\E r \in candidatas : SeSolapaCon(reserva_temporal, r))

\* verificar_disponibilidad: the range query, then se_solapa_con on a
\* transient Activa reserva with id "temp" (0 here).
Disponible(mapa, sala_id, fecha_inicio, fecha_fin, now) ==
    LET candidatas == RepoListarPorSalaYRango(mapa, sala_id, fecha_inicio, fecha_fin)
        reserva_temporal == FromExisting(0, sala_id, "temp_user", fecha_inicio,
                                         fecha_fin, "Activa", now)
    IN ~(\E r \in candidatas : SeSolapaCon(reserva_temporal, r))

\* Mutant: crear_reserva stores its reservation before it checks the
\* availability.
MutCrearVerificarGuardaAntes(h) ==
    /\ pc[h] = "verificar"
    /\ reservas' = IF reserva[h] = {} THEN reservas
                   ELSE RepoGuardar(reservas, CHOOSE r \in reserva[h] : TRUE)
    /\ IF Disponible(reservas, llamada[h].sala_id, llamada[h].fecha_inicio,
                     llamada[h].fecha_fin, ahora)
       THEN Sigue(h, "guardar", reserva[h])
       ELSE Retorna(h, Validacion(<<MsgNoDisponible>>))
    /\ UNCHANGED <<ahora, uuids, exitos>>

\* crear_reserva at its call of verificar_disponibilidad.
CrearVerificar(h) ==
    /\ pc[h] = "verificar"
    /\ IF Disponible(reservas, llamada[h].sala_id, llamada[h].fecha_inicio,
                     llamada[h].fecha_fin, ahora)
       THEN Sigue(h, "guardar", reserva[h])
       ELSE Retorna(h, Validacion(<<MsgNoDisponible>>))
    /\ UNCHANGED <<reservas, ahora, uuids, exitos>>

\* Mutant: guardar checks availability again under the map's lock.
MutCrearGuardar(h) ==
    /\ pc[h] = "guardar"
    /\ \E r \in reserva[h] :
         IF Disponible(reservas, r.sala_id, r.fecha_inicio, r.fecha_fin, ahora)
         THEN /\ reservas' = RepoGuardar(reservas, r)
              /\ Retorna(h, Ok(r))
         ELSE /\ reservas' = reservas
              /\ Retorna(h, Validacion(<<MsgNoDisponible>>))
    /\ UNCHANGED <<ahora, uuids, exitos>>

\* crear_reserva at its call of repository.guardar.
CrearGuardar(h) ==
    /\ pc[h] = "guardar"
    /\ \E r \in reserva[h] :
         /\ reservas' = RepoGuardar(reservas, r)
         /\ Retorna(h, Ok(r))
    /\ UNCHANGED <<ahora, uuids, exitos>>

(***************************************************************************)
(* ReservaServiceImpl::cancelar_reserva / completar_reserva                *)
(***************************************************************************)
\* Mutant: cancelar_reserva without the status check.
MutCancelarReserva(h) ==
    /\ pc[h] = "inicio"
    /\ llamada[h].op = "cancelar_reserva"
    /\ LET cargada == RepoObtener(reservas, llamada[h].id)
       IN IF cargada = {}
          THEN Retorna(h, NoEncontrada)
          ELSE \E r \in cargada : Sigue(h, "actualizar", {Cancelar(r)})
    /\ UNCHANGED <<reservas, ahora, uuids, exitos>>

\* Up to the call of repository.actualizar: obtener, the status check and
\* the in-place transition of the local copy.
CancelarReserva(h) ==
    /\ pc[h] = "inicio"
    /\ llamada[h].op = "cancelar_reserva"
    /\ LET cargada == RepoObtener(reservas, llamada[h].id)
       IN IF cargada = {}
          THEN Retorna(h, NoEncontrada)
          ELSE \E r \in cargada :
                 IF ~EstaActiva(r)
                 THEN Retorna(h, Validacion(<<MsgSoloCancelarActivas>>))
                 ELSE Sigue(h, "actualizar", {Cancelar(r)})
    /\ UNCHANGED <<reservas, ahora, uuids, exitos>>

\* Mutant: completar_reserva reports an absent id as a validation error.
MutCompletarReserva(h) ==
    /\ pc[h] = "inicio"
    /\ llamada[h].op = "completar_reserva"
    /\ LET cargada == RepoObtener(reservas, llamada[h].id)
       IN IF cargada = {}
          THEN Retorna(h, Validacion(<<MsgSoloCompletarActivas>>))
          ELSE \E r \in cargada :
                 IF ~EstaActiva(r)
                 THEN Retorna(h, Validacion(<<MsgSoloCompletarActivas>>))
                 ELSE Sigue(h, "actualizar", {Completar(r)})
    /\ UNCHANGED <<reservas, ahora, uuids, exitos>>

CompletarReserva(h) ==
    /\ pc[h] = "inicio"
    /\ llamada[h].op = "completar_reserva"
    /\ LET cargada == RepoObtener(reservas, llamada[h].id)
       IN IF cargada = {}
          THEN Retorna(h, NoEncontrada)
          ELSE \E r \in cargada :
                 IF ~EstaActiva(r)
                 THEN Retorna(h, Validacion(<<MsgSoloCompletarActivas>>))
                 ELSE Sigue(h, "actualizar", {Completar(r)})
    /\ UNCHANGED <<reservas, ahora, uuids, exitos>>

\* cancelar_reserva / completar_reserva at their call of repository.actualizar.
Actualizar(h) ==
    /\ pc[h] = "actualizar"
    /\ \E r \in reserva[h] :
         LET res == RepoActualizar(reservas, r)
         IN /\ reservas' = res.mapa
            /\ IF res.tipo = "Ok"
               THEN /\ Retorna(h, Ok(r))
                    /\ exitos' = [exitos EXCEPT ![r.id] = @ + 1]
               ELSE /\ Retorna(h, NoEncontrada)
                    /\ UNCHANGED exitos
    /\ UNCHANGED <<ahora, uuids>>

\* Valid and arbitrary (start, end) pairs a caller may pass.
IntervalosValidos == {iv \in Instantes \X Instantes : iv[1] < iv[2]}
Intervalos == Instantes \X Instantes

\* crear_reserva calls that have not reached Reserva::new yet.
CrearPendientes ==
    Cardinality({g \in Hilos : pc[g] = "inicio" /\ llamada[g].op = "crear_reserva"})

\* A caller invokes crear_reserva with arguments from the given sets, while
\* an identifier is left for it.
InvocarCrear(h, salas, usuarios, intervalos) ==
    /\ uuids + CrearPendientes < MaxReservas
    /\ \E s \in salas, u \in usuarios, iv \in intervalos :
          Invocar(h, LlamadaCrear(s, u, iv[1], iv[2]))

\* A caller invokes a lifecycle operation on some id.
InvocarCiclo(h) ==
    \E id \in Ids, op \in {"cancelar_reserva", "completar_reserva"} :
        Invocar(h, LlamadaPorId(op, id))

\* A task runs the call it holds up to its next await point or its return.
Paso(h) ==
    \/ CrearReserva(h)
    \/ CrearVerificar(h)
    \/ CrearGuardar(h)
    \/ CancelarReserva(h)
    \/ CompletarReserva(h)
    \/ Actualizar(h)

(***************************************************************************)
(* Spec: the tasks of Hilos run service calls concurrently; every await    *)
(* point is a place where the other task may run.  Callers pass rooms that *)
(* are registered and active, a registered user and well-formed intervals. *)
(***************************************************************************)
SalasActivas == {s \in DOMAIN SalasRegistradas : SalasRegistradas[s].activa}
UsuariosActivos == {u \in DOMAIN UsuariosRegistrados : UsuariosRegistrados[u].activo}

Next ==
    \E h \in Hilos :
        \/ InvocarCrear(h, SalasActivas, UsuariosActivos, IntervalosValidos)
        \/ InvocarCiclo(h)
        \/ Paso(h)

Spec == Init /\ [][Next]_vars

(***************************************************************************)
(* SpecSeq: service calls run one at a time (one task, each call runs to   *)
(* its return before the next begins), with arbitrary arguments: rooms    *)
(* and users known or not, intervals well-formed or not.                   *)
(***************************************************************************)
HiloSecuencial == "h1"

NextSeq ==
    \/ InvocarCrear(HiloSecuencial, SalaIds, UsuarioIds, Intervalos)
    \/ InvocarCiclo(HiloSecuencial)
    \/ Paso(HiloSecuencial)

SpecSeq == Init /\ [][NextSeq]_vars

(***************************************************************************)
(* SpecEntidad: Reserva::new applied once to arguments and a current time  *)
(* drawn from sets that hold identifiers that are empty, blank and         *)
(* non-empty, and instants that give durations below, at and above both    *)
(* duration bounds.                                                        *)
(***************************************************************************)
\* Durations of the entity's tests: ten minutes, ten hours.
DuracionMuyCortaMinutos == 10
DuracionMuyLargaHoras == 10

InstantesEntidad ==
    {0, DuracionMuyCortaMinutos, MinDuracionMinutos, MaxDuracionMinutos,
     MaxDuracionMinutos + MinDuracionMinutos, DuracionMuyLargaHoras * 60}
AhorasEntidad == {0, MinDuracionMinutos}
SalaIdsEntidad == {"", " ", "sala1"}
UsuarioIdsEntidad == {"", "usuario1"}

LlamadaNew(sala_id, usuario_id, fecha_inicio, fecha_fin) ==
    [op |-> "Reserva::new", sala_id |-> sala_id, usuario_id |-> usuario_id,
     fecha_inicio |-> fecha_inicio, fecha_fin |-> fecha_fin, id |-> 0]

\* The sequential task holds one call, the other task is idle.
InitCon(llamadas, ahoras, mapas) ==
    /\ reservas \in mapas
    /\ ahora \in ahoras
    /\ uuids = 0
    /\ pc = [h \in Hilos |-> IF h = HiloSecuencial THEN "inicio" ELSE "libre"]
    /\ \E ll \in llamadas :
         llamada = [h \in Hilos |-> IF h = HiloSecuencial THEN ll ELSE SinLlamada]
    /\ reserva = [h \in Hilos |-> {}]
    /\ resultado = [h \in Hilos |-> SinResultado]
    /\ exitos = [i \in Ids |-> 0]
    /\ repo = "InMemory"
    /\ archivo = SinArchivo
    /\ copia = [h \in Hilos |-> <<>>]
    /\ candado = SinCandado

InitEntidad ==
    InitCon({LlamadaNew(s, u, i, f) : s \in SalaIdsEntidad, u \in UsuarioIdsEntidad,
                                      i \in InstantesEntidad, f \in InstantesEntidad},
            AhorasEntidad, {<<>>})

\* Reserva::new on the arguments the task holds; the arguments stay in
\* llamada beside the result.
AplicarNew(h) ==
    /\ pc[h] = "inicio"
    /\ llamada[h].op = "Reserva::new"
    /\ LET nueva == ReservaNew(llamada[h].sala_id, llamada[h].usuario_id,
                               llamada[h].fecha_inicio, llamada[h].fecha_fin,
                               ahora, uuids + 1)
       IN IF nueva.ok
          THEN /\ uuids' = uuids + 1
               /\ resultado' = [resultado EXCEPT
                                  ![h] = [tipo |-> "Ok", mensajes |-> <<>>,
                                          reserva |-> nueva.reserva]]
          ELSE /\ uuids' = uuids
               /\ resultado' = [resultado EXCEPT ![h] = Validacion(nueva.errores)]
    /\ pc' = [pc EXCEPT ![h] = "libre"]
    /\ UNCHANGED <<reservas, ahora, llamada, reserva, exitos>>
    /\ SinTocarArchivo

NextEntidad == AplicarNew(HiloSecuencial)

SpecEntidad == InitEntidad /\ [][NextEntidad]_vars

(***************************************************************************)
(* Stored reservations a repository can hold: any active room, any status, *)
(* any well-formed interval.                                               *)
(***************************************************************************)
Formas == SalasActivas \X Estados \X IntervalosValidos

ReservaDeForma(id, g) ==
    FromExisting(id, g[1], "usuario1", g[3][1], g[3][2], g[2], 0)

MapasSobre(D) == {[i \in D |-> ReservaDeForma(i, g[i])] : g \in [D -> Formas]}

\* A boolean returned by a call.
Booleano(b) ==
    [tipo |-> IF b THEN "true" ELSE "false", mensajes |-> <<>>, reserva |-> {}]

(***************************************************************************)
(* SpecSolapa: se_solapa_con applied to two reservations in both orders,   *)
(* one order per task.                                                     *)
(***************************************************************************)
LlamadaSolapa(self, otra) ==
    [op |-> "se_solapa_con", sala_id |-> "", usuario_id |-> "",
     fecha_inicio |-> 0, fecha_fin |-> 0, id |-> self, otra |-> otra]

InitSolapa ==
    /\ reservas \in MapasSobre({1, 2})
    /\ ahora = 0
    /\ uuids = 0
    /\ pc = [h \in Hilos |-> "inicio"]
    /\ llamada = [h \in Hilos |-> IF h = HiloSecuencial
                                   THEN LlamadaSolapa(1, 2)
                                   ELSE LlamadaSolapa(2, 1)]
    /\ reserva = [h \in Hilos |-> {}]
    /\ resultado = [h \in Hilos |-> SinResultado]
    /\ exitos = [i \in Ids |-> 0]
    /\ repo = "InMemory"
    /\ archivo = SinArchivo
    /\ copia = [h \in Hilos |-> <<>>]
    /\ candado = SinCandado

AplicarSeSolapaCon(h) ==
    /\ pc[h] = "inicio"
    /\ llamada[h].op = "se_solapa_con"
    /\ resultado' = [resultado EXCEPT
                       ![h] = Booleano(SeSolapaCon(reservas[llamada[h].id],
                                                   reservas[llamada[h].otra]))]
    /\ pc' = [pc EXCEPT ![h] = "libre"]
    /\ UNCHANGED <<reservas, ahora, uuids, llamada, reserva, exitos>>
    /\ SinTocarArchivo

NextSolapa == \E h \in Hilos : AplicarSeSolapaCon(h)

SpecSolapa == InitSolapa /\ [][NextSolapa]_vars

(***************************************************************************)
(* SpecConsulta: the read operations applied to an arbitrary repository:   *)
(* one task calls verificar_disponibilidad, the other the range query of   *)
(* one of the two repository implementations, with the same arguments.     *)
(***************************************************************************)
OpsListar ==
    {"InMemoryReservaRepository::listar_por_sala_y_rango",
     "FileReservaRepository::listar_por_sala_y_rango"}

LlamadaConsulta(op, sala_id, fecha_inicio, fecha_fin) ==
    [op |-> op, sala_id |-> sala_id, usuario_id |-> "",
     fecha_inicio |-> fecha_inicio, fecha_fin |-> fecha_fin, id |-> 0]

InitConsulta ==
    /\ \E D \in SUBSET Ids : reservas \in MapasSobre(D)
    /\ ahora = 0
    /\ uuids = 0
    /\ pc = [h \in Hilos |-> "inicio"]
    /\ \E s \in SalasActivas, iv \in IntervalosValidos, op \in OpsListar :
         /\ llamada = [h \in Hilos |->
                         IF h = HiloSecuencial
                         THEN LlamadaConsulta("verificar_disponibilidad", s, iv[1], iv[2])
                         ELSE LlamadaConsulta(op, s, iv[1], iv[2])]
         /\ repo = IF op = "FileReservaRepository::listar_por_sala_y_rango"
                   THEN "File" ELSE "InMemory"
    /\ reserva = [h \in Hilos |-> {}]
    /\ resultado = [h \in Hilos |-> SinResultado]
    /\ exitos = [i \in Ids |-> 0]
    /\ archivo = IF repo = "File" THEN ArchivoJson(reservas) ELSE SinArchivo
    /\ copia = [h \in Hilos |-> <<>>]
    /\ candado = SinCandado

AplicarVerificarDisponibilidad(h) ==
    /\ pc[h] = "inicio"
    /\ llamada[h].op = "verificar_disponibilidad"
    /\ resultado' = [resultado EXCEPT
                       ![h] = Booleano(Disponible(reservas, llamada[h].sala_id,
                                                  llamada[h].fecha_inicio,
                                                  llamada[h].fecha_fin, ahora))]
    /\ pc' = [pc EXCEPT ![h] = "libre"]
    /\ UNCHANGED <<reservas, ahora, uuids, llamada, reserva, exitos>>
    /\ SinTocarArchivo

\* The range query returns its Vec in reserva[h].
AplicarListar(h, op, lista) ==
    /\ pc[h] = "inicio"
    /\ llamada[h].op = op
    /\ reserva' = [reserva EXCEPT ![h] = lista]
    /\ resultado' = [resultado EXCEPT
                       ![h] = [tipo |-> "Ok", mensajes |-> <<>>, reserva |-> {}]]
    /\ pc' = [pc EXCEPT ![h] = "libre"]
    /\ UNCHANGED <<reservas, ahora, uuids, llamada, exitos>>
    /\ SinTocarArchivo

AplicarListarInMemory(h) ==
    AplicarListar(h, "InMemoryReservaRepository::listar_por_sala_y_rango",
                  RepoListarPorSalaYRango(reservas, llamada[h].sala_id,
                                          llamada[h].fecha_inicio, llamada[h].fecha_fin))

AplicarListarFile(h) ==
    AplicarListar(h, "FileReservaRepository::listar_por_sala_y_rango",
                  FileListarPorSalaYRango(reservas, llamada[h].sala_id,
                                          llamada[h].fecha_inicio, llamada[h].fecha_fin))

NextConsulta ==
    \E h \in Hilos :
        \/ AplicarVerificarDisponibilidad(h)
        \/ AplicarListarInMemory(h)
        \/ AplicarListarFile(h)

SpecConsulta == InitConsulta /\ [][NextConsulta]_vars

(***************************************************************************)
(* Repository operations called directly by concurrent tasks, on either    *)
(* implementation.  The in-memory operations are one step under the lock;  *)
(* the writes of the file repository change the cache under the exclusive  *)
(* lock, release it, copy the cache under the shared lock and write the    *)
(* copy to the file.                                                       *)
(***************************************************************************)
ErrorRepositorio(msg) ==
    [tipo |-> "ErrorRepositorio", mensajes |-> <<msg>>, reserva |-> {}]

\* Ok(()) of a write, Ok(Option) of obtener, Ok(Vec) of the list operations.
OkRepo(valores) == [tipo |-> "Ok", mensajes |-> <<>>, reserva |-> valores]

LlamadaRepo(op, args, id) ==
    [op |-> op, sala_id |-> "sala1", usuario_id |-> "usuario1",
     fecha_inicio |-> 0, fecha_fin |-> MinDuracionMinutos, id |-> id, arg |-> args]

\* Reservations the callers pass to guardar and actualizar.
ReservasRepo ==
    {FromExisting(i, "sala1", "usuario1", 0, MinDuracionMinutos, e, 0) :
        i \in Ids, e \in {"Activa", "Cancelada"}}

OpsLectura ==
    {"obtener", "listar", "listar_por_sala", "listar_por_usuario",
     "listar_por_sala_y_rango", "verificar_disponibilidad"}

LlamadasRepo ==
    {LlamadaRepo(op, {r}, r.id) : op \in {"guardar", "actualizar"}, r \in ReservasRepo}
    \cup {LlamadaRepo(op, {}, i) : op \in {"eliminar", "obtener"}, i \in Ids}
    \cup {LlamadaRepo(op, {}, 0) : op \in OpsLectura \ {"obtener"}}

\* Files found at process start: none, an unreadable one, one that does not
\* parse, one written by an earlier process.
ArchivosIniciales ==
    {SinArchivo, ArchivoIlegible, ArchivoCorrupto}
    \cup {ArchivoJson((r.id :> r)) : r \in {x \in ReservasRepo : x.id = 1}}

InitRepo ==
    /\ reservas = <<>>
    /\ ahora = 0
    /\ uuids = 0
    /\ pc = [h \in Hilos |-> "libre"]
    /\ llamada = [h \in Hilos |-> SinLlamada]
    /\ reserva = [h \in Hilos |-> {}]
    /\ resultado = [h \in Hilos |-> SinResultado]
    /\ exitos = [i \in Ids |-> 0]
    /\ repo \in {"InMemory", "File"}
    /\ archivo \in IF repo = "File" THEN ArchivosIniciales ELSE {SinArchivo}
    /\ copia = [h \in Hilos |-> <<>>]
    /\ candado = SinCandado

InvocarRepo(h) ==
    \/ \E ll \in LlamadasRepo : Invocar(h, ll)
    \/ repo = "File" /\ Invocar(h, LlamadaRepo("init", {}, 0))

\* A repository call returns; what it held outside the lock is dropped.
RetornaRepo(h, res) ==
    /\ pc' = [pc EXCEPT ![h] = "libre"]
    /\ llamada' = [llamada EXCEPT ![h] = SinLlamada]
    /\ resultado' = [resultado EXCEPT ![h] = res]
    /\ copia' = [copia EXCEPT ![h] = <<>>]
    /\ UNCHANGED <<ahora, uuids, reserva, exitos, repo, candado>>

\* A file operation releases the lock and suspends at its next await point.
SigueRepo(h, punto, local) ==
    /\ pc' = [pc EXCEPT ![h] = punto]
    /\ copia' = [copia EXCEPT ![h] = local]
    /\ UNCHANGED <<llamada, resultado, ahora, uuids, reserva, exitos, repo, candado>>

EnPunto(h, punto, ops, impl) ==
    pc[h] = punto /\ llamada[h].op \in ops /\ repo \in impl

Ambas == {"InMemory", "File"}

(* InMemoryReservaRepository: guardar, actualizar, eliminar.               *)
MemGuardar(h) ==
    /\ EnPunto(h, "inicio", {"guardar"}, {"InMemory"})
    /\ \E r \in llamada[h].arg :
         /\ reservas' = RepoGuardar(reservas, r)
         /\ RetornaRepo(h, OkRepo({}))
    /\ UNCHANGED archivo

MemActualizar(h) ==
    /\ EnPunto(h, "inicio", {"actualizar"}, {"InMemory"})
    /\ \E r \in llamada[h].arg :
         LET res == RepoActualizar(reservas, r)
         IN /\ reservas' = res.mapa
            /\ RetornaRepo(h, IF res.tipo = "Ok" THEN OkRepo({}) ELSE NoEncontrada)
    /\ UNCHANGED archivo

MemEliminar(h) ==
    /\ EnPunto(h, "inicio", {"eliminar"}, {"InMemory"})
    /\ LET res == RepoEliminar(reservas, llamada[h].id)
       IN /\ reservas' = res.mapa
          /\ RetornaRepo(h, IF res.tipo = "Ok" THEN OkRepo({}) ELSE NoEncontrada)
    /\ UNCHANGED archivo
(* FileReservaRepository: guardar, actualizar, eliminar, save_to_file.     *)
\* guardar under the exclusive lock, up to drop(cache).
FileGuardar(h) ==
    /\ EnPunto(h, "inicio", {"guardar"}, {"File"})
    /\ \E r \in llamada[h].arg : reservas' = RepoGuardar(reservas, r)
    /\ SigueRepo(h, "copiar", <<>>)
    /\ UNCHANGED archivo

\* actualizar under the exclusive lock: contains_key, insert, drop(cache).
FileActualizar(h) ==
    /\ EnPunto(h, "inicio", {"actualizar"}, {"File"})
    /\ \E r \in llamada[h].arg :
         LET res == RepoActualizar(reservas, r)
         IN /\ reservas' = res.mapa
            /\ IF res.tipo = "Ok"
               THEN SigueRepo(h, "copiar", <<>>)
               ELSE RetornaRepo(h, NoEncontrada)
    /\ UNCHANGED archivo

\* eliminar under the exclusive lock: remove, drop(cache).
FileEliminar(h) ==
    /\ EnPunto(h, "inicio", {"eliminar"}, {"File"})
    /\ LET res == RepoEliminar(reservas, llamada[h].id)
       IN /\ reservas' = res.mapa
          /\ IF res.tipo = "Ok"
             THEN SigueRepo(h, "copiar", <<>>)
             ELSE RetornaRepo(h, NoEncontrada)
    /\ UNCHANGED archivo

\* save_to_file: cache.clone() under the shared lock.
FileCopiar(h) ==
    /\ EnPunto(h, "copiar", {"guardar", "actualizar", "eliminar"}, {"File"})
    /\ SigueRepo(h, "escribir", reservas)
    /\ UNCHANGED <<reservas, archivo>>

\* Mutant: save_to_file writes the cache as it is at the time of the write.
MutFileEscribir(h) ==
    /\ EnPunto(h, "escribir", {"guardar", "actualizar", "eliminar"}, {"File"})
    /\ archivo' = ArchivoJson(reservas)
    /\ RetornaRepo(h, OkRepo({}))
    /\ UNCHANGED reservas

\* save_to_file: fs::write of the serialised copy, then Ok(()).
FileEscribir(h) ==
    /\ EnPunto(h, "escribir", {"guardar", "actualizar", "eliminar"}, {"File"})
    /\ archivo' = ArchivoJson(copia[h])
    /\ RetornaRepo(h, OkRepo({}))
    /\ UNCHANGED reservas

MsgErrorLeer == "Error al leer archivo"
MsgErrorParsear == "Error al parsear JSON"

\* Mutant: init treats a file it cannot read or parse as an empty one.
MutFileInit(h) ==
    /\ EnPunto(h, "inicio", {"init"}, {"File"})
    /\ IF archivo.estado = "NoExiste"
       THEN RetornaRepo(h, OkRepo({}))
       ELSE SigueRepo(h, "cargar", Deserializar(archivo.datos))
    /\ UNCHANGED <<reservas, archivo>>

\* init / load_from_file up to the parsed data: exists, read_to_string,
\* from_str.
FileInit(h) ==
    /\ EnPunto(h, "inicio", {"init"}, {"File"})
    /\ IF archivo.estado = "NoExiste"
       THEN RetornaRepo(h, OkRepo({}))
       ELSE IF archivo.estado = "Ilegible"
       THEN RetornaRepo(h, ErrorRepositorio(MsgErrorLeer))
       ELSE IF archivo.estado = "Corrupto"
       THEN RetornaRepo(h, ErrorRepositorio(MsgErrorParsear))
       ELSE SigueRepo(h, "cargar", Deserializar(archivo.datos))
    /\ UNCHANGED <<reservas, archivo>>

\* load_from_file: *cache = data.reservas under the exclusive lock.
FileInitCargar(h) ==
    /\ EnPunto(h, "cargar", {"init"}, {"File"})
    /\ reservas' = copia[h]
    /\ RetornaRepo(h, OkRepo({}))
    /\ UNCHANGED archivo

(* Reads of both implementations, each under the shared lock.              *)
Leer(h, op, valores) ==
    /\ EnPunto(h, "inicio", {op}, Ambas)
    /\ RetornaRepo(h, OkRepo(valores))
    /\ UNCHANGED <<reservas, archivo>>

LeerObtener(h) == Leer(h, "obtener", RepoObtener(reservas, llamada[h].id))

LeerListar(h) == Leer(h, "listar", RepoListar(reservas))

LeerListarPorSala(h) ==
    Leer(h, "listar_por_sala", RepoListarPorSala(reservas, llamada[h].sala_id))

LeerListarPorUsuario(h) ==
    Leer(h, "listar_por_usuario",
         RepoListarPorUsuario(reservas, llamada[h].usuario_id))

LeerListarPorSalaYRango(h) ==
    Leer(h, "listar_por_sala_y_rango",
         IF repo = "File"
         THEN FileListarPorSalaYRango(reservas, llamada[h].sala_id,
                                      llamada[h].fecha_inicio, llamada[h].fecha_fin)
         ELSE RepoListarPorSalaYRango(reservas, llamada[h].sala_id,
                                      llamada[h].fecha_inicio, llamada[h].fecha_fin))

\* Mutant: verificar_disponibilidad stores its transient reserva.
MutLeerVerificarDisponibilidad(h) ==
    /\ EnPunto(h, "inicio", {"verificar_disponibilidad"}, Ambas)
    /\ reservas' = RepoGuardar(reservas,
                                FromExisting(0, llamada[h].sala_id, "temp_user",
                                             llamada[h].fecha_inicio,
                                             llamada[h].fecha_fin, "Activa", ahora))
    /\ RetornaRepo(h, Booleano(Disponible(reservas, llamada[h].sala_id,
                                           llamada[h].fecha_inicio,
                                           llamada[h].fecha_fin, ahora)))
    /\ UNCHANGED archivo

\* The service's verificar_disponibilidad over the repository.
LeerVerificarDisponibilidad(h) ==
    /\ EnPunto(h, "inicio", {"verificar_disponibilidad"}, Ambas)
    /\ RetornaRepo(h, Booleano(Disponible(reservas, llamada[h].sala_id,
                                           llamada[h].fecha_inicio,
                                           llamada[h].fecha_fin, ahora)))
    /\ UNCHANGED <<reservas, archivo>>

PasoRepo(h) ==
    \/ MemGuardar(h)
    \/ MemActualizar(h)
    \/ MemEliminar(h)
    \/ FileGuardar(h)
    \/ FileActualizar(h)
    \/ FileEliminar(h)
    \/ FileCopiar(h)
    \/ FileEscribir(h)
    \/ FileInit(h)
    \/ FileInitCargar(h)
    \/ LeerObtener(h)
    \/ LeerListar(h)
    \/ LeerListarPorSala(h)
    \/ LeerListarPorUsuario(h)
    \/ LeerListarPorSalaYRango(h)
    \/ LeerVerificarDisponibilidad(h)

(***************************************************************************)
(* SpecRepo: two tasks call repository operations concurrently.            *)
(* SpecRepoSeq: one task calls them one after another.                     *)
(***************************************************************************)
NextRepo == \E h \in Hilos : InvocarRepo(h) \/ PasoRepo(h)

SpecRepo == InitRepo /\ [][NextRepo]_vars

NextRepoSeq == InvocarRepo(HiloSecuencial) \/ PasoRepo(HiloSecuencial)

SpecRepoSeq == InitRepo /\ [][NextRepoSeq]_vars

(***************************************************************************)
(* SpecFallos: service calls run one at a time against repositories that   *)
(* may fail.  Each call carries the repository call at which its           *)
(* repository returns Err (falla), "ninguno" when none does.               *)
(***************************************************************************)
MsgErrorSala == "Error al verificar sala"
MsgErrorUsuario == "Error al verificar usuario"
MsgErrorEscribir == "Error al escribir archivo"
MsgErrorLectura == "Error de lectura"

FallasCrear == {"ninguno", "sala", "usuario", "listar", "guardar"}
FallasCiclo == {"ninguno", "obtener", "actualizar"}

ConFalla(ll, f) == [falla |-> f] @@ ll

\* The repository call task h is about to make is the one that fails.
Aplica(h) ==
    /\ pc[h] # "libre"
    /\ LET f == llamada[h].falla
           sala == SalaObtener(llamada[h].sala_id)
       IN \/ /\ pc[h] = "inicio" /\ llamada[h].op = "crear_reserva"
             /\ \/ f = "sala"
                \/ f = "usuario" /\ sala # {} /\ \A s \in sala : s.activa
          \/ pc[h] = "verificar" /\ f = "listar"
          \/ pc[h] = "guardar" /\ f = "guardar"
          \/ /\ pc[h] = "inicio"
             /\ llamada[h].op \in {"cancelar_reserva", "completar_reserva"}
             /\ f = "obtener"
          \/ pc[h] = "actualizar" /\ f = "actualizar"

\* The error the service returns for a failure at the given call: the two
\* lookups are wrapped by map_err, the rest is passed on by `?`.
ErrorDeFalla(f) ==
    ErrorRepositorio(IF f = "sala" THEN MsgErrorSala
                     ELSE IF f = "usuario" THEN MsgErrorUsuario
                     ELSE IF f \in {"guardar", "actualizar"} THEN MsgErrorEscribir
                     ELSE MsgErrorLectura)

\* Mutant: the service calls the failed repository again and goes on with
\* the answer of the second attempt.
MutFallaReintenta(h) ==
    /\ Aplica(h)
    /\ Paso(h)

\* A repository call of the operation returns Err: `?` returns it from the
\* operation.  A failed write may have changed the map already (the file
\* repository inserts before it writes the file).
Falla(h) ==
    /\ Aplica(h)
    /\ LET f == llamada[h].falla
       IN /\ Retorna(h, ErrorDeFalla(f))
          /\ reservas' \in
               {reservas} \cup
               {RepoGuardar(reservas, r) : r \in IF f = "guardar" THEN reserva[h] ELSE {}} \cup
               {RepoActualizar(reservas, r).mapa :
                    r \in IF f = "actualizar" THEN reserva[h] ELSE {}}
    /\ UNCHANGED <<ahora, uuids, exitos>>

InvocarCrearFallos(h) ==
    /\ uuids + CrearPendientes < MaxReservas
    /\ \E s \in SalaIds, u \in UsuarioIds, iv \in IntervalosValidos, f \in FallasCrear :
          Invocar(h, ConFalla(LlamadaCrear(s, u, iv[1], iv[2]), f))

InvocarCicloFallos(h) ==
    \E id \in Ids, op \in {"cancelar_reserva", "completar_reserva"}, f \in FallasCiclo :
        Invocar(h, ConFalla(LlamadaPorId(op, id), f))

PasoSinFalla(h) == ~Aplica(h) /\ Paso(h)

NextFallos ==
    \/ InvocarCrearFallos(HiloSecuencial)
    \/ InvocarCicloFallos(HiloSecuencial)
    \/ Falla(HiloSecuencial)
    \/ PasoSinFalla(HiloSecuencial)

SpecFallos == Init /\ [][NextFallos]_vars

(***************************************************************************)
(* ReservaGrpcServer: the status of crear_reserva, cancelar_reserva and    *)
(* completar_reserva for a result of the service.                          *)
(***************************************************************************)
OpsGrpc == {"crear_reserva", "cancelar_reserva", "completar_reserva"}

PrefijoGrpc(op) ==
    IF op = "crear_reserva" THEN "Error al crear reserva: "
    ELSE IF op = "cancelar_reserva" THEN "Error al cancelar reserva: "
    ELSE "Error al completar reserva: "

\* Display of ReservaError: a fixed text per kind, followed by the messages
\* (joined by "; " for Validacion).
DisplayError(res) ==
    IF res.tipo = "NoEncontrada" THEN <<"Reserva no encontrada">>
    ELSE IF res.tipo = "ErrorRepositorio" THEN <<"Error en repositorio: ">> \o res.mensajes
    ELSE <<"Errores de validación: ">> \o res.mensajes

\* map_err(|e| Status::internal(format!("...: {}", e))) on the result.
GrpcStatus(op, res) ==
    IF res.tipo = "Ok"
    THEN [code |-> "Ok", message |-> <<>>]
    ELSE [code |-> "Internal", message |-> <<PrefijoGrpc(op)>> \o DisplayError(res)]

(***************************************************************************)
(* SpecCrear: service calls run one at a time, with the identifiers and    *)
(* the instants that exercise every rule of Reserva::new (empty and blank  *)
(* ids, durations below, at and above both bounds).                        *)
(***************************************************************************)
SalaIdsCrear == {"", "sala1", "sala9"}
UsuarioIdsCrear == {"", "usuario1"}
IntervalosCrear == InstantesEntidad \X InstantesEntidad

NextCrear ==
    \/ InvocarCrear(HiloSecuencial, SalaIdsCrear, UsuarioIdsCrear, IntervalosCrear)
    \/ InvocarCiclo(HiloSecuencial)
    \/ Paso(HiloSecuencial)

SpecCrear == Init /\ [][NextCrear]_vars

(***************************************************************************)
(* SpecBorrado: cancelar_reserva and completar_reserva of the service run  *)
(* concurrently with eliminar of the in-memory repository, over a          *)
(* repository that holds reservations already.                             *)
(***************************************************************************)
InitBorrado ==
    /\ \E D \in SUBSET Ids : D # {} /\ reservas \in MapasSobre(D)
    /\ ahora = 0
    /\ uuids = MaxReservas
    /\ pc = [h \in Hilos |-> "libre"]
    /\ llamada = [h \in Hilos |-> SinLlamada]
    /\ reserva = [h \in Hilos |-> {}]
    /\ resultado = [h \in Hilos |-> SinResultado]
    /\ exitos = [i \in Ids |-> 0]
    /\ repo = "InMemory"
    /\ archivo = SinArchivo
    /\ copia = [h \in Hilos |-> <<>>]
    /\ candado = SinCandado

InvocarEliminar(h) ==
    \E id \in Ids : Invocar(h, LlamadaPorId("eliminar", id))

PasoCiclo(h) ==
    \/ CancelarReserva(h)
    \/ CompletarReserva(h)
    \/ Actualizar(h)

NextBorrado ==
    \E h \in Hilos :
        \/ InvocarCiclo(h)
        \/ InvocarEliminar(h)
        \/ PasoCiclo(h)
        \/ MemEliminar(h)

SpecBorrado == InitBorrado /\ [][NextBorrado]_vars

(***************************************************************************)
(* SpecDisco: the service over the file repository, one call at a time,    *)
(* on a disk whose writes may fail.  A write of the repository is one      *)
(* step here: the cache mutation under the lock followed by save_to_file.  *)
(***************************************************************************)
MsgErrorDirectorio == "Error al crear directorio"

\* Outcomes of save_to_file: it succeeds, create_dir_all fails, fs::write
\* fails.
DiscoFalla == {"ninguna", "directorio", "escritura"}

ErrorDeDisco(f) ==
    ErrorRepositorio(IF f = "directorio" THEN MsgErrorDirectorio ELSE MsgErrorEscribir)

\* The file after save_to_file ran on the given cache: a failed fs::write
\* leaves the old content or a truncated one.
ArchivoTras(mapa, f) ==
    IF f = "ninguna" THEN {ArchivoJson(mapa)}
    ELSE IF f = "directorio" THEN {archivo}
    ELSE {archivo, ArchivoCorrupto}

InitDisco ==
    /\ reservas = <<>>
    /\ ahora = 0
    /\ uuids = 0
    /\ pc = [h \in Hilos |-> "libre"]
    /\ llamada = [h \in Hilos |-> SinLlamada]
    /\ reserva = [h \in Hilos |-> {}]
    /\ resultado = [h \in Hilos |-> SinResultado]
    /\ exitos = [i \in Ids |-> 0]
    /\ repo = "File"
    /\ archivo = SinArchivo
    /\ copia = [h \in Hilos |-> <<>>]
    /\ candado = SinCandado

RetornaDisco(h, res) ==
    /\ pc' = [pc EXCEPT ![h] = "libre"]
    /\ llamada' = [llamada EXCEPT ![h] = SinLlamada]
    /\ reserva' = [reserva EXCEPT ![h] = {}]
    /\ resultado' = [resultado EXCEPT ![h] = res]
    /\ UNCHANGED <<repo, copia, candado>>

\* Mutant: guardar takes its entry out of the cache again when save_to_file
\* fails.
MutFileGuardarRevierte(h) ==
    /\ pc[h] = "guardar"
    /\ repo = "File"
    /\ \E r \in reserva[h], f \in DiscoFalla :
         /\ reservas' = IF f = "ninguna" THEN RepoGuardar(reservas, r) ELSE reservas
         /\ archivo' \in ArchivoTras(reservas', f)
         /\ RetornaDisco(h, IF f = "ninguna" THEN Ok(r) ELSE ErrorDeDisco(f))
    /\ UNCHANGED <<ahora, uuids, exitos>>

\* crear_reserva at its call of FileReservaRepository::guardar.
FileGuardarServicio(h) ==
    /\ pc[h] = "guardar"
    /\ repo = "File"
    /\ \E r \in reserva[h], f \in DiscoFalla :
         /\ reservas' = RepoGuardar(reservas, r)
         /\ archivo' \in ArchivoTras(reservas', f)
         /\ RetornaDisco(h, IF f = "ninguna" THEN Ok(r) ELSE ErrorDeDisco(f))
    /\ UNCHANGED <<ahora, uuids, exitos>>

\* cancelar_reserva / completar_reserva at their call of
\* FileReservaRepository::actualizar.
FileActualizarServicio(h) ==
    /\ pc[h] = "actualizar"
    /\ repo = "File"
    /\ \E r \in reserva[h], f \in DiscoFalla :
         LET res == RepoActualizar(reservas, r)
         IN /\ reservas' = res.mapa
            /\ IF res.tipo # "Ok"
               THEN /\ f = "ninguna"
                    /\ archivo' = archivo
                    /\ RetornaDisco(h, NoEncontrada)
                    /\ UNCHANGED exitos
               ELSE /\ archivo' \in ArchivoTras(reservas', f)
                    /\ RetornaDisco(h, IF f = "ninguna" THEN Ok(r) ELSE ErrorDeDisco(f))
                    /\ exitos' = IF f = "ninguna"
                                 THEN [exitos EXCEPT ![r.id] = @ + 1]
                                 ELSE exitos
    /\ UNCHANGED <<ahora, uuids>>

\* FileReservaRepository::eliminar.
FileEliminarDisco(h) ==
    /\ pc[h] = "inicio"
    /\ llamada[h].op = "eliminar"
    /\ repo = "File"
    /\ \E f \in DiscoFalla :
         LET res == RepoEliminar(reservas, llamada[h].id)
         IN /\ reservas' = res.mapa
            /\ IF res.tipo # "Ok"
               THEN /\ f = "ninguna"
                    /\ archivo' = archivo
                    /\ RetornaDisco(h, NoEncontrada)
               ELSE /\ archivo' \in ArchivoTras(reservas', f)
                    /\ RetornaDisco(h, IF f = "ninguna" THEN OkRepo({}) ELSE ErrorDeDisco(f))
    /\ UNCHANGED <<ahora, uuids, exitos>>

InvocarVerificar(h) ==
    \E s \in SalasActivas, iv \in IntervalosValidos :
        Invocar(h, LlamadaConsulta("verificar_disponibilidad", s, iv[1], iv[2]))

NextDisco ==
    \/ InvocarCrear(HiloSecuencial, SalasActivas, UsuariosActivos, IntervalosValidos)
    \/ InvocarCiclo(HiloSecuencial)
    \/ InvocarEliminar(HiloSecuencial)
    \/ InvocarVerificar(HiloSecuencial)
    \/ CrearReserva(HiloSecuencial)
    \/ CrearVerificar(HiloSecuencial)
    \/ CancelarReserva(HiloSecuencial)
    \/ CompletarReserva(HiloSecuencial)
    \/ FileGuardarServicio(HiloSecuencial)
    \/ FileActualizarServicio(HiloSecuencial)
    \/ FileEliminarDisco(HiloSecuencial)
    \/ LeerVerificarDisponibilidad(HiloSecuencial)

SpecDisco == InitDisco /\ [][NextDisco]_vars

(***************************************************************************)
(* SpecReinicio: repository calls one at a time, with process restarts:    *)
(* a restart keeps the file and builds a new repository instance, on which *)
(* init() may or may not be called.                                        *)
(***************************************************************************)
\* Mutant: the constructor loads the file into the cache.
MutReiniciarCarga ==
    /\ \A h \in Hilos : pc[h] = "libre"
    /\ reservas' = Deserializar(archivo.datos)
    /\ UNCHANGED <<ahora, uuids, pc, llamada, reserva, resultado, exitos>>
    /\ SinTocarArchivo

\* The process ends with no call in progress and a new one starts:
\* FileReservaRepository::new builds an empty cache.
Reiniciar ==
    /\ \A h \in Hilos : pc[h] = "libre"
    /\ reservas' = <<>>
    /\ UNCHANGED <<ahora, uuids, pc, llamada, reserva, resultado, exitos>>
    /\ SinTocarArchivo

NextReinicio ==
    \/ InvocarRepo(HiloSecuencial)
    \/ PasoRepo(HiloSecuencial)
    \/ Reiniciar

SpecReinicio == InitRepo /\ [][NextReinicio]_vars

(***************************************************************************)
(* SpecVacio: verificar_disponibilidad applied to an arbitrary repository  *)
(* with an interval whose start is not before its end.                     *)
(***************************************************************************)
InstantesVacio == {k * MinDuracionMinutos : k \in 0..(MaxSlot + 1)}
IntervalosVacios == {iv \in InstantesVacio \X InstantesVacio : iv[1] >= iv[2]}
FormasVacio ==
    SalasActivas \X Estados \X {iv \in InstantesVacio \X InstantesVacio : iv[1] < iv[2]}

InitVacio ==
    /\ \E D \in SUBSET Ids :
         \E g \in [D -> FormasVacio] : reservas = [i \in D |-> ReservaDeForma(i, g[i])]
    /\ ahora = 0
    /\ uuids = 0
    /\ pc = [h \in Hilos |-> IF h = HiloSecuencial THEN "inicio" ELSE "libre"]
    /\ \E s \in SalasActivas, iv \in IntervalosVacios :
         llamada = [h \in Hilos |->
                      IF h = HiloSecuencial
                      THEN LlamadaConsulta("verificar_disponibilidad", s, iv[1], iv[2])
                      ELSE SinLlamada]
    /\ reserva = [h \in Hilos |-> {}]
    /\ resultado = [h \in Hilos |-> SinResultado]
    /\ exitos = [i \in Ids |-> 0]
    /\ repo = "InMemory"
    /\ archivo = SinArchivo
    /\ copia = [h \in Hilos |-> <<>>]
    /\ candado = SinCandado

NextVacio == AplicarVerificarDisponibilidad(HiloSecuencial)

SpecVacio == InitVacio /\ [][NextVacio]_vars

(***************************************************************************)
(* SpecGrpc: cancelar_reserva and completar_reserva reach the service      *)
(* through ReservaGrpcServer, one request at a time; a request carries the *)
(* subject of its token (sujeto), or no valid token.                       *)
(***************************************************************************)
Sujetos == {"usuario1", "usuario2"}

MsgTokenRequerido == "Token de autenticación requerido"

SinAutenticar ==
    [reserva |-> {}, tipo |-> "Unauthenticated", mensajes |-> <<MsgTokenRequerido>>]

ConSujeto(ll, s) == [sujeto |-> s] @@ ll

\* require_auth_user()? on a request without a valid token: the handler
\* returns Status::unauthenticated and the service is not called.
GrpcRechaza(h) ==
    /\ pc[h] = "libre"
    /\ resultado[h] # SinAutenticar
    /\ resultado' = [resultado EXCEPT ![h] = SinAutenticar]
    /\ UNCHANGED <<reservas, ahora, uuids, pc, llamada, reserva, exitos>>
    /\ SinTocarArchivo

\* require_auth_user()? on a request with a valid token: the AuthUser it
\* returns is dropped and the handler calls the service with the id of the
\* request.
GrpcInvocarCiclo(h) ==
    \E id \in Ids, op \in {"cancelar_reserva", "completar_reserva"}, s \in Sujetos :
        Invocar(h, ConSujeto(LlamadaPorId(op, id), s))

NextGrpc ==
    \/ InvocarCrear(HiloSecuencial, SalasActivas, Sujetos, IntervalosValidos)
    \/ GrpcRechaza(HiloSecuencial)
    \/ GrpcInvocarCiclo(HiloSecuencial)
    \/ Paso(HiloSecuencial)

SpecGrpc == Init /\ [][NextGrpc]_vars

(***************************************************************************)
(* SpecCandado: two tasks call the repository with the RwLock of the map   *)
(* explicit: a task takes the write or the read guard in one step (when    *)
(* the lock allows it) and runs the guarded block, up to the drop of the   *)
(* guard, in the next.  SpecCandadoJusto adds the fairness of the lock and *)
(* of the scheduler: a task that can take its step again and again takes   *)
(* it.                                                                     *)
(***************************************************************************)
ReservaCandado ==
    FromExisting(1, "sala1", "usuario1", 0, MinDuracionMinutos, "Activa", 0)

OpsEscritura == {"guardar", "actualizar", "eliminar"}
OpsLecturaCandado == {"obtener", "listar"}

LlamadasCandado ==
    {LlamadaRepo("guardar", {ReservaCandado}, 1),
     LlamadaRepo("actualizar", {Cancelar(ReservaCandado)}, 1),
     LlamadaRepo("eliminar", {}, 1),
     LlamadaRepo("obtener", {}, 1),
     LlamadaRepo("listar", {}, 0),
     LlamadaRepo("init", {}, 0)}

InitCandado ==
    /\ reservas = <<>>
    /\ ahora = 0
    /\ uuids = 0
    /\ pc = [h \in Hilos |-> "libre"]
    /\ llamada = [h \in Hilos |-> SinLlamada]
    /\ reserva = [h \in Hilos |-> {}]
    /\ resultado = [h \in Hilos |-> SinResultado]
    /\ exitos = [i \in Ids |-> 0]
    /\ repo \in {"InMemory", "File"}
    /\ archivo = SinArchivo
    /\ copia = [h \in Hilos |-> <<>>]
    /\ candado = SinCandado

InvocarCandado(h) ==
    \E ll \in LlamadasCandado :
        /\ ll.op = "init" => repo = "File"
        /\ Invocar(h, ll)

\* RwLock::write() resolves when no guard is alive, RwLock::read() when no
\* write guard is.
PuedeEscribir == candado.escritor = "" /\ candado.lectores = {}
PuedeLeer == candado.escritor = ""

ConEscritor(h) == [candado EXCEPT !.escritor = h]
ConLector(h) == [candado EXCEPT !.lectores = @ \cup {h}]
SinGuardaDe(h) ==
    [escritor |-> IF candado.escritor = h THEN "" ELSE candado.escritor,
     lectores |-> candado.lectores \ {h}]

FinCandado(h, res, c) ==
    /\ pc' = [pc EXCEPT ![h] = "libre"]
    /\ llamada' = [llamada EXCEPT ![h] = SinLlamada]
    /\ resultado' = [resultado EXCEPT ![h] = res]
    /\ copia' = [copia EXCEPT ![h] = <<>>]
    /\ candado' = c
    /\ UNCHANGED <<ahora, uuids, reserva, exitos, repo>>

SigueCandado(h, punto, local, c) ==
    /\ pc' = [pc EXCEPT ![h] = punto]
    /\ copia' = [copia EXCEPT ![h] = local]
    /\ candado' = c
    /\ UNCHANGED <<llamada, resultado, ahora, uuids, reserva, exitos, repo>>

\* self.cache.write().await of guardar, actualizar, eliminar and
\* load_from_file.
TomarEscritura(h) ==
    /\ \/ pc[h] = "inicio" /\ llamada[h].op \in OpsEscritura
       \/ pc[h] = "cargar"
    /\ PuedeEscribir
    /\ SigueCandado(h, IF pc[h] = "cargar" THEN "asignar" ELSE "escritura",
                    copia[h], ConEscritor(h))
    /\ UNCHANGED <<reservas, archivo>>

\* What the guarded block of a write does to the map.
EfectoEscritura(ll) ==
    IF ll.op = "guardar"
    THEN [tipo |-> "Ok", mapa |-> RepoGuardar(reservas, CHOOSE r \in ll.arg : TRUE)]
    ELSE IF ll.op = "actualizar"
    THEN RepoActualizar(reservas, CHOOSE r \in ll.arg : TRUE)
    ELSE RepoEliminar(reservas, ll.id)

\* Mutant: the file repository keeps its write guard while it calls
\* save_to_file.
MutMutarSinSoltar(h) ==
    /\ pc[h] = "escritura"
    /\ LET res == EfectoEscritura(llamada[h])
       IN /\ reservas' = res.mapa
          /\ IF res.tipo # "Ok"
             THEN FinCandado(h, NoEncontrada, SinGuardaDe(h))
             ELSE IF repo = "InMemory"
             THEN FinCandado(h, OkRepo({}), SinGuardaDe(h))
             ELSE SigueCandado(h, "copiar", <<>>, candado)
    /\ UNCHANGED archivo

\* The guarded block of guardar, actualizar and eliminar: the mutation and
\* the drop of the guard; the file repository goes on to save_to_file.
MutarYSoltar(h) ==
    /\ pc[h] = "escritura"
    /\ LET res == EfectoEscritura(llamada[h])
       IN /\ reservas' = res.mapa
          /\ IF res.tipo # "Ok"
             THEN FinCandado(h, NoEncontrada, SinGuardaDe(h))
             ELSE IF repo = "InMemory"
             THEN FinCandado(h, OkRepo({}), SinGuardaDe(h))
             ELSE SigueCandado(h, "copiar", <<>>, SinGuardaDe(h))
    /\ UNCHANGED archivo

\* self.cache.read().await of the reads and of save_to_file.
TomarLectura(h) ==
    /\ \/ pc[h] = "inicio" /\ llamada[h].op \in OpsLecturaCandado
       \/ pc[h] = "copiar"
    /\ PuedeLeer
    /\ SigueCandado(h, IF pc[h] = "copiar" THEN "clonar" ELSE "lectura",
                    copia[h], ConLector(h))
    /\ UNCHANGED <<reservas, archivo>>

\* The guarded block of a read: the clones it returns, and the drop.
LeerYSoltar(h) ==
    /\ pc[h] = "lectura"
    /\ FinCandado(h, OkRepo(IF llamada[h].op = "obtener"
                            THEN RepoObtener(reservas, llamada[h].id)
                            ELSE RepoListar(reservas)),
                  SinGuardaDe(h))
    /\ UNCHANGED <<reservas, archivo>>

\* save_to_file: cache.clone() and the drop of the read guard.
ClonarYSoltar(h) ==
    /\ pc[h] = "clonar"
    /\ SigueCandado(h, "escribir", reservas, SinGuardaDe(h))
    /\ UNCHANGED <<reservas, archivo>>

\* save_to_file: fs::write, with no guard.
EscribirSinCandado(h) ==
    /\ pc[h] = "escribir"
    /\ archivo' = ArchivoJson(copia[h])
    /\ FinCandado(h, OkRepo({}), candado)
    /\ UNCHANGED reservas

\* load_from_file up to the parsed data, with no guard.
InitSinCandado(h) ==
    /\ pc[h] = "inicio"
    /\ llamada[h].op = "init"
    /\ IF archivo.estado = "NoExiste"
       THEN FinCandado(h, OkRepo({}), candado)
       ELSE SigueCandado(h, "cargar", Deserializar(archivo.datos), candado)
    /\ UNCHANGED <<reservas, archivo>>

\* load_from_file: *cache = data.reservas and the drop of the write guard.
AsignarYSoltar(h) ==
    /\ pc[h] = "asignar"
    /\ reservas' = copia[h]
    /\ FinCandado(h, OkRepo({}), SinGuardaDe(h))
    /\ UNCHANGED archivo

PasoCandado(h) ==
    \/ TomarEscritura(h)
    \/ MutarYSoltar(h)
    \/ TomarLectura(h)
    \/ LeerYSoltar(h)
    \/ ClonarYSoltar(h)
    \/ EscribirSinCandado(h)
    \/ InitSinCandado(h)
    \/ AsignarYSoltar(h)

NextCandado == \E h \in Hilos : InvocarCandado(h) \/ PasoCandado(h)

SpecCandado == InitCandado /\ [][NextCandado]_vars

SpecCandadoJusto == SpecCandado /\ \A h \in Hilos : SF_vars(PasoCandado(h))

(***************************************************************************)
(* Properties.                                                             *)
(***************************************************************************)
Terminal(r) == r.estado \in {"Cancelada", "Completada"}

EsCiclo(ll) == ll.op \in {"cancelar_reserva", "completar_reserva"}

Rango(seq) == {seq[k] : k \in DOMAIN seq}

\* Some stored Activa reservation of the requested room intersects the
\* interval requested by the crear_reserva call task h holds.
ConflictoCon(h) ==
    \E j \in DOMAIN reservas :
        /\ reservas[j].sala_id = llamada[h].sala_id
        /\ reservas[j].estado = "Activa"
        /\ reservas[j].fecha_inicio < llamada[h].fecha_fin
        /\ llamada[h].fecha_inicio < reservas[j].fecha_fin

\* The room and user of the call exist, the room is active and the entity
\* rules hold for its arguments.
ChequeosPreviosPasan(h) ==
    /\ llamada[h].sala_id \in DOMAIN SalasRegistradas
    /\ SalasRegistradas[llamada[h].sala_id].activa
    /\ llamada[h].usuario_id \in DOMAIN UsuariosRegistrados
    /\ llamada[h].sala_id \notin {"", " "}
    /\ llamada[h].usuario_id \notin {"", " "}
    /\ llamada[h].fecha_inicio >= ahora
    /\ llamada[h].fecha_fin >= ahora
    /\ llamada[h].fecha_fin > llamada[h].fecha_inicio
    /\ llamada[h].fecha_fin - llamada[h].fecha_inicio >= MinDuracionMinutos
    /\ llamada[h].fecha_fin - llamada[h].fecha_inicio <= MaxDuracionMinutos

\* C1: in every reachable state no two distinct stored reservations that are
\* Activa and of the same room have intersecting half-open intervals.
C1_SinSolapamiento ==
    \A i, j \in DOMAIN reservas :
        (/\ i # j
         /\ reservas[i].sala_id = reservas[j].sala_id
         /\ reservas[i].estado = "Activa"
         /\ reservas[j].estado = "Activa")
        => ~(/\ reservas[i].fecha_inicio < reservas[j].fecha_fin
             /\ reservas[j].fecha_inicio < reservas[i].fecha_fin)

\* C2 as stated: with calls running one at a time, stored Activa reservations
\* of a room never overlap, and a crear_reserva whose interval intersects a
\* stored Activa reservation of its room stores nothing and returns a
\* validation error that names the conflict.
C2_ConflictoSiempreNombrado ==
    [][/\ C1_SinSolapamiento'
       /\ \A h \in Hilos :
            (/\ pc[h] # "libre"
             /\ llamada[h].op = "crear_reserva"
             /\ ConflictoCon(h))
            => /\ reservas' = reservas
               /\ pc'[h] = "libre"
                    => /\ resultado'[h].tipo = "Validacion"
                       /\ MsgNoDisponible \in Rango(resultado'[h].mensajes)]_vars

\* C2 as amended: with calls running one at a time, stored Activa reservations
\* of a room never overlap, and a crear_reserva whose interval intersects a
\* stored Activa reservation of its room stores nothing and returns a
\* validation error; the error names the conflict when the room and user
\* lookups and the entity rules pass, and otherwise it is the error of the
\* first of those checks that fails.
C2_ConflictoRechazado ==
    [][/\ C1_SinSolapamiento'
       /\ \A h \in Hilos :
            (/\ pc[h] # "libre"
             /\ llamada[h].op = "crear_reserva"
             /\ ConflictoCon(h))
            => /\ reservas' = reservas
               /\ pc'[h] \in {"libre", "verificar"}
               /\ pc'[h] = "libre" => resultado'[h].tipo = "Validacion"
               /\ (pc[h] = "inicio" /\ ChequeosPreviosPasan(h))
                    => pc'[h] = "verificar"
               /\ (pc[h] = "inicio" /\ pc'[h] = "libre")
                    => MsgNoDisponible \notin Rango(resultado'[h].mensajes)
               /\ pc[h] = "verificar"
                    => /\ pc'[h] = "libre"
                       /\ resultado'[h].mensajes = <<MsgNoDisponible>>]_vars

\* C2 witness: a crear_reserva was refused for a conflict with a stored
\* Activa reservation.
C2_Testigo ==
    \E h \in Hilos :
        /\ resultado[h] = Validacion(<<MsgNoDisponible>>)
        /\ \E j \in DOMAIN reservas : reservas[j].estado = "Activa"

\* C3: the availability check and the save are separate steps, and the save
\* does not look at the map again: a task that passed the check stores its
\* reservation and returns Ok whatever was stored in between.
C3_GuardarSinRevisar ==
    [][\A h \in Hilos :
         (pc[h] = "guardar" /\ pc'[h] # "guardar")
         => \E r \in reserva[h] :
              /\ r.id \notin DOMAIN reservas
              /\ DOMAIN reservas' = DOMAIN reservas \cup {r.id}
              /\ reservas'[r.id] = r
              /\ \A j \in DOMAIN reservas : reservas'[j] = reservas[j]
              /\ resultado'[h].tipo = "Ok"
              /\ resultado'[h].reserva = {r}]_vars

\* C3 witness: two crear_reserva calls both returned Ok and their
\* reservations are both stored, Activa, of the same room and overlapping.
C3_Testigo ==
    \E h1, h2 \in Hilos :
        /\ h1 # h2
        /\ resultado[h1].tipo = "Ok"
        /\ resultado[h2].tipo = "Ok"
        /\ \E a \in resultado[h1].reserva, b \in resultado[h2].reserva :
             /\ a.id # b.id
             /\ a.id \in DOMAIN reservas /\ reservas[a.id] = a
             /\ b.id \in DOMAIN reservas /\ reservas[b.id] = b
             /\ a.estado = "Activa" /\ b.estado = "Activa"
             /\ a.sala_id = b.sala_id
             /\ a.fecha_inicio < b.fecha_fin /\ b.fecha_inicio < a.fecha_fin

\* C4: once the stored status of a reservation is Cancelada or Completada no
\* step changes it.
C4_TerminalEstable ==
    [][\A i \in DOMAIN reservas :
         reservas[i].estado \in {"Cancelada", "Completada"}
         => /\ i \in DOMAIN reservas'
            /\ reservas'[i].estado = reservas[i].estado]_vars

\* C5: a cancelar_reserva or completar_reserva call on an id whose stored
\* status is Cancelada or Completada returns a validation error (not
\* NoEncontrada) and leaves the repository as it was.
C5_TerminalRechazado ==
    [][\A h \in Hilos :
         (/\ pc[h] = "inicio"
          /\ pc'[h] # "inicio"
          /\ EsCiclo(llamada[h])
          /\ llamada[h].id \in DOMAIN reservas
          /\ reservas[llamada[h].id].estado \in {"Cancelada", "Completada"})
         => /\ pc'[h] = "libre"
            /\ resultado'[h].tipo = "Validacion"
            /\ resultado'[h].mensajes # <<>>
            /\ reservas' = reservas]_vars

\* C5 witness: a cancelar_reserva call was refused while a Cancelada
\* reservation is stored (the second of two cancels).
C5_Testigo ==
    \E h \in Hilos :
        /\ resultado[h] = Validacion(<<MsgSoloCancelarActivas>>)
        /\ \E j \in DOMAIN reservas : reservas[j].estado = "Cancelada"

\* C6: for each id at most one cancelar_reserva or completar_reserva call
\* ever returns Ok.
C6_UnaSolaTransicion ==
    \A i \in Ids : exitos[i] <= 1

\* C7: a cancelar_reserva (completar_reserva) call that returns Ok on an
\* Activa reservation stores Cancelada (Completada) for that id, changes no
\* other field and no other stored reservation, and returns the stored entity.
C7_TransicionExacta ==
    [][\A h \in Hilos :
         (/\ pc[h] = "actualizar"
          /\ pc'[h] = "libre"
          /\ resultado'[h].tipo = "Ok"
          /\ llamada[h].id \in DOMAIN reservas
          /\ reservas[llamada[h].id].estado = "Activa")
         => LET id == llamada[h].id
                nuevo == IF llamada[h].op = "cancelar_reserva"
                         THEN "Cancelada" ELSE "Completada"
            IN /\ reservas' = [reservas EXCEPT ![id].estado = nuevo]
               /\ resultado'[h].reserva = {reservas'[id]}]_vars

\* C7 witness: a cancel returned Ok, its Cancelada entity is the stored one,
\* and another reservation is stored beside it.
C7_Testigo ==
    \E h \in Hilos :
        /\ resultado[h].tipo = "Ok"
        /\ \E r \in resultado[h].reserva :
             /\ r.estado = "Cancelada"
             /\ r.id \in DOMAIN reservas
             /\ reservas[r.id] = r
             /\ \E j \in DOMAIN reservas : j # r.id

\* C8: cancelar_reserva and completar_reserva on an id that is not stored
\* return NoEncontrada and leave the repository as it was.
C8_AusenteNoEncontrada ==
    [][\A h \in Hilos :
         (/\ pc[h] = "inicio"
          /\ pc'[h] # "inicio"
          /\ EsCiclo(llamada[h])
          /\ llamada[h].id \notin DOMAIN reservas)
         => /\ pc'[h] = "libre"
            /\ resultado'[h].tipo = "NoEncontrada"
            /\ reservas' = reservas]_vars

\* C8 witness: a lifecycle call returned NoEncontrada while something else is
\* stored.
C8_Testigo ==
    \E h \in Hilos :
        /\ resultado[h].tipo = "NoEncontrada"
        /\ DOMAIN reservas # {}

\* C9: when the room exists and is active, the user exists, the entity rules
\* hold and the interval is free, crear_reserva stores exactly one new Activa
\* reservation with the given arguments under an id not stored before,
\* returns it, obtener(id) then gives the same reservation, and the
\* reservations stored before are untouched.
C9_CrearAlmacena ==
    [][\A h \in Hilos :
         (llamada[h].op = "crear_reserva" /\ pc'[h] # pc[h])
         => /\ (pc[h] = "inicio" /\ ChequeosPreviosPasan(h))
                 => pc'[h] = "verificar" /\ reservas' = reservas
            /\ (pc[h] = "verificar" /\ ~ConflictoCon(h))
                 => pc'[h] = "guardar" /\ reservas' = reservas
            /\ pc[h] = "guardar"
                 => \E id \in DOMAIN reservas' \ DOMAIN reservas :
                      /\ DOMAIN reservas' = DOMAIN reservas \cup {id}
                      /\ \A j \in DOMAIN reservas : reservas'[j] = reservas[j]
                      /\ reservas'[id].id = id
                      /\ reservas'[id].estado = "Activa"
                      /\ reservas'[id].sala_id = llamada[h].sala_id
                      /\ reservas'[id].usuario_id = llamada[h].usuario_id
                      /\ reservas'[id].fecha_inicio = llamada[h].fecha_inicio
                      /\ reservas'[id].fecha_fin = llamada[h].fecha_fin
                      /\ pc'[h] = "libre"
                      /\ resultado'[h].tipo = "Ok"
                      /\ resultado'[h].reserva = {reservas'[id]}
                      /\ RepoObtener(reservas', id) = resultado'[h].reserva]_vars

\* C9 witness: a crear_reserva returned Ok, its Activa reservation is stored
\* and an earlier reservation is stored beside it.
C9_Testigo ==
    \E h \in Hilos :
        /\ resultado[h].tipo = "Ok"
        /\ \E r \in resultado[h].reserva :
             /\ r.estado = "Activa"
             /\ RepoObtener(reservas, r.id) = {r}
             /\ \E j \in DOMAIN reservas : j < r.id

C11_SalaInactivaRechazada ==
    [][\A h \in Hilos :
         (/\ pc[h] = "inicio"
          /\ pc'[h] # "inicio"
          /\ llamada[h].op = "crear_reserva"
          /\ llamada[h].sala_id \in DOMAIN SalasRegistradas
          /\ ~SalasRegistradas[llamada[h].sala_id].activa)
         => /\ pc'[h] = "libre"
            /\ resultado'[h] = Validacion(<<MsgSalaInactiva>>)
            /\ reservas' = reservas
            /\ uuids' = uuids]_vars

\* C11 witness: a crear_reserva for the inactive room was refused while a
\* reservation is stored.
C11_Testigo ==
    \E h \in Hilos :
        /\ resultado[h] = Validacion(<<MsgSalaInactiva>>)
        /\ DOMAIN reservas # {}

\* C12: every stored reservation belongs to a user that is registered and
\* active: crear_reserva never succeeds for an unknown or deactivated user.
C12_SoloUsuariosUsables ==
    \A j \in DOMAIN reservas :
        /\ reservas[j].usuario_id \in DOMAIN UsuariosRegistrados
        /\ UsuariosRegistrados[reservas[j].usuario_id].activo

MensajesDeEntidad ==
    {MsgSalaVacia, MsgUsuarioVacio, MsgInicioPasado, MsgFinPasado,
     MsgFinAnterior, MsgDuracion}

\* C13: crear_reserva checks room exists, room active, user exists, entity
\* rules, availability in this order and returns the first failure; an entity
\* message or the conflict message is returned only when the room is active
\* and the user exists, and the call reaches the availability query only
\* when all earlier checks passed.
C13_OrdenDeChequeos ==
    [][\A h \in Hilos :
         (llamada[h].op = "crear_reserva" /\ pc'[h] # pc[h])
         => LET sala == llamada[h].sala_id
                usuario == llamada[h].usuario_id
                salaExiste == sala \in DOMAIN SalasRegistradas
                salaActiva == salaExiste /\ SalasRegistradas[sala].activa
                usuarioExiste == usuario \in DOMAIN UsuariosRegistrados
                mensajes == Rango(resultado'[h].mensajes)
            IN /\ (pc[h] = "inicio" /\ ~salaExiste)
                    => resultado'[h] = Validacion(<<MsgSalaNoExiste>>)
               /\ (pc[h] = "inicio" /\ salaExiste /\ ~salaActiva)
                    => resultado'[h] = Validacion(<<MsgSalaInactiva>>)
               /\ (pc[h] = "inicio" /\ salaActiva /\ ~usuarioExiste)
                    => resultado'[h] = Validacion(<<MsgUsuarioNoExiste>>)
               /\ (pc[h] = "inicio" /\ salaActiva /\ usuarioExiste
                      /\ ~ChequeosPreviosPasan(h))
                    => /\ resultado'[h].tipo = "Validacion"
                       /\ mensajes # {}
                       /\ mensajes \subseteq MensajesDeEntidad
               /\ (mensajes \cap (MensajesDeEntidad \cup {MsgNoDisponible}) # {})
                    => salaActiva /\ usuarioExiste
               /\ MsgNoDisponible \in mensajes
                    => pc[h] = "verificar" /\ ConflictoCon(h)
               /\ pc'[h] = "verificar" => ChequeosPreviosPasan(h)
               /\ pc[h] \in {"verificar", "guardar"} => ChequeosPreviosPasan(h)]_vars

\* C13 witness: a crear_reserva was refused by the entity rules (end not
\* after start) while a reservation is stored.
C13_Testigo ==
    \E h \in Hilos :
        /\ resultado[h] = Validacion(<<MsgFinAnterior, MsgDuracion>>)
        /\ DOMAIN reservas # {}

\* The arguments, the messages and the number of violated rules of the
\* Reserva::new call the sequential task holds.
ArgsNew == llamada[HiloSecuencial]
MensajesNew == Rango(resultado[HiloSecuencial].mensajes)
NewTerminado ==
    pc[HiloSecuencial] = "libre" /\ llamada[HiloSecuencial].op = "Reserva::new"

\* C14: the list Reserva::new returns holds the message of every violated
\* rule (empty room id, empty user id, start in the past, end in the past,
\* end not after start, duration out of bounds), one entry per violated rule
\* and nothing else; empty ids with equal past start and end give at least
\* four messages.
C14_TodasLasReglas ==
    NewTerminado =>
        /\ MsgSalaVacia \in MensajesNew <=> ArgsNew.sala_id \in {"", " "}
        /\ MsgUsuarioVacio \in MensajesNew <=> ArgsNew.usuario_id \in {"", " "}
        /\ MsgInicioPasado \in MensajesNew <=> ArgsNew.fecha_inicio < ahora
        /\ MsgFinPasado \in MensajesNew <=> ArgsNew.fecha_fin < ahora
        /\ MsgFinAnterior \in MensajesNew <=> ArgsNew.fecha_fin <= ArgsNew.fecha_inicio
        /\ MsgDuracion \in MensajesNew
             <=> \/ ArgsNew.fecha_fin - ArgsNew.fecha_inicio < MinDuracionMinutos
                 \/ ArgsNew.fecha_fin - ArgsNew.fecha_inicio > MaxDuracionHoras * 60
        /\ MensajesNew \subseteq MensajesDeEntidad
        /\ Len(resultado[HiloSecuencial].mensajes) = Cardinality(MensajesNew)
        /\ (/\ ArgsNew.sala_id \in {"", " "}
            /\ ArgsNew.usuario_id \in {"", " "}
            /\ ArgsNew.fecha_inicio = ArgsNew.fecha_fin
            /\ ArgsNew.fecha_fin < ahora)
             => Len(resultado[HiloSecuencial].mensajes) >= 4

\* C14 witness: Reserva::new with empty ids and equal past start and end
\* returned all six messages.
C14_Testigo ==
    /\ NewTerminado
    /\ ArgsNew.sala_id = "" /\ ArgsNew.usuario_id = ""
    /\ ArgsNew.fecha_inicio = ArgsNew.fecha_fin
    /\ ArgsNew.fecha_fin < ahora
    /\ MensajesNew = MensajesDeEntidad

\* C15: Reserva::new succeeds exactly when both ids are non-empty, start and
\* end are not before the current time, end > start and the duration is
\* between 15 minutes and 8 hours, both inclusive; a 10-minute and a 10-hour
\* interval are refused with the duration message, and the accepted
\* reservation is Activa with the given fields.
C15_ExitoSiYSoloSi ==
    NewTerminado =>
        LET duracion == ArgsNew.fecha_fin - ArgsNew.fecha_inicio
            res == resultado[HiloSecuencial]
        IN /\ res.tipo \in {"Ok", "Validacion"}
           /\ res.tipo = "Ok"
                <=> /\ ArgsNew.sala_id \notin {"", " "}
                    /\ ArgsNew.usuario_id \notin {"", " "}
                    /\ ArgsNew.fecha_inicio >= ahora
                    /\ ArgsNew.fecha_fin >= ahora
                    /\ ArgsNew.fecha_fin > ArgsNew.fecha_inicio
                    /\ duracion >= MinDuracionMinutos
                    /\ duracion <= MaxDuracionHoras * 60
           /\ duracion \in {DuracionMuyCortaMinutos, DuracionMuyLargaHoras * 60}
                => res.tipo = "Validacion" /\ MsgDuracion \in MensajesNew
           /\ res.tipo = "Ok"
                => \E r \in res.reserva :
                     /\ r.estado = "Activa"
                     /\ r.sala_id = ArgsNew.sala_id
                     /\ r.usuario_id = ArgsNew.usuario_id
                     /\ r.fecha_inicio = ArgsNew.fecha_inicio
                     /\ r.fecha_fin = ArgsNew.fecha_fin
           /\ res.tipo = "Validacion" => res.mensajes # <<>>

\* C15 witness: Reserva::new accepted an interval of exactly 8 hours.
C15_Testigo ==
    /\ NewTerminado
    /\ resultado[HiloSecuencial].tipo = "Ok"
    /\ ArgsNew.fecha_fin - ArgsNew.fecha_inicio = MaxDuracionHoras * 60

\* A task has returned from its se_solapa_con call.
SolapaTerminado(h) == pc[h] = "libre" /\ llamada[h].op = "se_solapa_con"

\* C16: a.se_solapa_con(b) is true exactly when a and b are of the same room,
\* both Activa, and a.start < b.end and b.start < a.end; intervals that only
\* touch do not overlap and a Cancelada or Completada reservation overlaps
\* nothing.
C16_SolapaSiYSoloSi ==
    \A h \in Hilos :
        SolapaTerminado(h) =>
            LET a == reservas[llamada[h].id]
                b == reservas[llamada[h].otra]
            IN /\ resultado[h].tipo \in {"true", "false"}
               /\ resultado[h].tipo = "true"
                    <=> /\ a.sala_id = b.sala_id
                        /\ a.estado = "Activa"
                        /\ b.estado = "Activa"
                        /\ a.fecha_inicio < b.fecha_fin
                        /\ b.fecha_inicio < a.fecha_fin
               /\ (a.fecha_fin = b.fecha_inicio \/ b.fecha_fin = a.fecha_inicio)
                    => resultado[h].tipo = "false"
               /\ (a.estado # "Activa" \/ b.estado # "Activa")
                    => resultado[h].tipo = "false"

\* C16 witness: se_solapa_con returned false for two Activa reservations of
\* one room that touch at an endpoint.
C16_Testigo ==
    \E h \in Hilos :
        /\ SolapaTerminado(h)
        /\ resultado[h].tipo = "false"
        /\ LET a == reservas[llamada[h].id]
               b == reservas[llamada[h].otra]
           IN /\ a.sala_id = b.sala_id
              /\ a.estado = "Activa" /\ b.estado = "Activa"
              /\ a.fecha_fin = b.fecha_inicio

\* C17: for two reservations of the same room, whatever their statuses and
\* intervals, a.se_solapa_con(b) equals b.se_solapa_con(a).
C17_SolapaSimetrica ==
    (/\ \A h \in Hilos : SolapaTerminado(h)
     /\ reservas[1].sala_id = reservas[2].sala_id)
    => \A g, h \in Hilos :
         (llamada[g].id = llamada[h].otra /\ llamada[g].otra = llamada[h].id)
         => resultado[g].tipo = resultado[h].tipo

\* C17 witness: both orders were computed for an Activa and a Cancelada
\* reservation of one room with intersecting intervals.
C17_Testigo ==
    /\ \A h \in Hilos : SolapaTerminado(h)
    /\ reservas[1].sala_id = reservas[2].sala_id
    /\ reservas[1].estado = "Activa"
    /\ reservas[2].estado = "Cancelada"
    /\ reservas[1].fecha_inicio < reservas[2].fecha_fin
    /\ reservas[2].fecha_inicio < reservas[1].fecha_fin

\* C18: for two reservations of different rooms se_solapa_con is false,
\* whatever their intervals and statuses.
C18_SalasDistintasNoSolapan ==
    \A h \in Hilos :
        (/\ SolapaTerminado(h)
         /\ reservas[llamada[h].id].sala_id # reservas[llamada[h].otra].sala_id)
        => resultado[h].tipo = "false"

\* C18 witness: se_solapa_con returned false for two Activa reservations of
\* different rooms with the same interval.
C18_Testigo ==
    \E h \in Hilos :
        /\ SolapaTerminado(h)
        /\ resultado[h].tipo = "false"
        /\ LET a == reservas[llamada[h].id]
               b == reservas[llamada[h].otra]
           IN /\ a.sala_id # b.sala_id
              /\ a.estado = "Activa" /\ b.estado = "Activa"
              /\ a.fecha_inicio = b.fecha_inicio /\ a.fecha_fin = b.fecha_fin

\* The stored reservations the range query of task h must return: those of
\* the room asked for that are Activa and intersect the interval asked for.
EnRango(h) ==
    {reservas[j] : j \in {i \in DOMAIN reservas :
        /\ reservas[i].sala_id = llamada[h].sala_id
        /\ reservas[i].estado = "Activa"
        /\ reservas[i].fecha_inicio < llamada[h].fecha_fin
        /\ llamada[h].fecha_inicio < reservas[i].fecha_fin}}

\* C19: for every repository, room and interval with start < end,
\* verificar_disponibilidad returns true exactly when no stored Activa
\* reservation of the room satisfies r.start < end and start < r.end;
\* reservations that only touch the interval, that are Cancelada or
\* Completada, or that are of another room never make it false.
C19_DisponibleSiYSoloSi ==
    \A h \in Hilos :
        (pc[h] = "libre" /\ llamada[h].op = "verificar_disponibilidad")
        => /\ resultado[h].tipo \in {"true", "false"}
           /\ resultado[h].tipo = "true" <=> EnRango(h) = {}
           /\ (\A j \in DOMAIN reservas :
                  \/ reservas[j].sala_id # llamada[h].sala_id
                  \/ reservas[j].estado # "Activa"
                  \/ reservas[j].fecha_fin <= llamada[h].fecha_inicio
                  \/ reservas[j].fecha_inicio >= llamada[h].fecha_fin)
                => resultado[h].tipo = "true"

\* C19 witness: verificar_disponibilidad returned true although the room has
\* a stored Activa reservation that ends where the interval starts and a
\* Cancelada one that intersects it.
C19_Testigo ==
    \E h \in Hilos :
        /\ pc[h] = "libre"
        /\ llamada[h].op = "verificar_disponibilidad"
        /\ resultado[h].tipo = "true"
        /\ \E i, j \in DOMAIN reservas :
             /\ reservas[i].sala_id = llamada[h].sala_id
             /\ reservas[i].estado = "Activa"
             /\ reservas[i].fecha_fin = llamada[h].fecha_inicio
             /\ reservas[j].sala_id = llamada[h].sala_id
             /\ reservas[j].estado = "Cancelada"
             /\ reservas[j].fecha_inicio < llamada[h].fecha_fin
             /\ llamada[h].fecha_inicio < reservas[j].fecha_fin

\* C20: in both repository implementations listar_por_sala_y_rango returns
\* exactly the stored reservations of the room that are Activa with
\* r.start < end and r.end > start: none failing a condition, none missing.
C20_ListarExacto ==
    \A h \in Hilos :
        (pc[h] = "libre" /\ llamada[h].op \in OpsListar)
        => /\ resultado[h].tipo = "Ok"
           /\ reserva[h] = EnRango(h)

\* C20 witness: the range query of the file repository returned one
\* reservation and left out a stored one of the same room.
C20_Testigo ==
    \E h \in Hilos :
        /\ pc[h] = "libre"
        /\ llamada[h].op = "FileReservaRepository::listar_por_sala_y_rango"
        /\ Cardinality(reserva[h]) = 1
        /\ \E j \in DOMAIN reservas :
             /\ reservas[j] \notin reserva[h]
             /\ reservas[j].sala_id = llamada[h].sala_id

\* Task h is at the step where its cancelar_reserva call updates the stored
\* Activa reservation and returns Ok.
CancelaConExito(h) ==
    /\ pc[h] = "actualizar"
    /\ llamada[h].op = "cancelar_reserva"
    /\ pc'[h] = "libre"
    /\ resultado'[h].tipo = "Ok"
    /\ llamada[h].id \in DOMAIN reservas
    /\ reservas[llamada[h].id].estado = "Activa"

\* Stored reservation r intersects the interval iv of its room.
Bloquea(r, iv) == r.fecha_inicio < iv[2] /\ iv[1] < r.fecha_fin

\* C21 as stated: when an Activa reservation r makes
\* verificar_disponibilidad(room, s, e) false, then after cancelar_reserva(r.id)
\* returns Ok verificar_disponibilidad(room, s, e) is true.
C21_CancelarLibera ==
    [][\A h \in Hilos :
         CancelaConExito(h)
         => LET r == reservas[llamada[h].id]
            IN \A iv \in IntervalosValidos :
                 (Bloquea(r, iv) /\ ~Disponible(reservas, r.sala_id, iv[1], iv[2], ahora))
                 => Disponible(reservas', r.sala_id, iv[1], iv[2], ahora)]_vars

\* C21 as amended: after cancelar_reserva(r.id) returns Ok, r no longer counts
\* for availability: verificar_disponibilidad(room, s, e) is true exactly when
\* no other stored Activa reservation of the room intersects [s, e), so it is
\* true when r was the only reservation blocking the interval.
C21_CancelarDejaDeBloquear ==
    [][\A h \in Hilos :
         CancelaConExito(h)
         => LET r == reservas[llamada[h].id]
            IN \A iv \in IntervalosValidos :
                 (Bloquea(r, iv) /\ ~Disponible(reservas, r.sala_id, iv[1], iv[2], ahora))
                 => (Disponible(reservas', r.sala_id, iv[1], iv[2], ahora)
                       <=> ~(\E j \in DOMAIN reservas \ {r.id} :
                               /\ reservas[j].sala_id = r.sala_id
                               /\ reservas[j].estado = "Activa"
                               /\ Bloquea(reservas[j], iv)))]_vars

\* C21 witness: a cancel returned Ok, the interval of the cancelled
\* reservation is available again, and another Activa reservation of the
\* room is stored beside it.
C21_Testigo ==
    \E h \in Hilos :
        /\ resultado[h].tipo = "Ok"
        /\ \E r \in resultado[h].reserva :
             /\ r.estado = "Cancelada"
             /\ r.id \in DOMAIN reservas
             /\ reservas[r.id] = r
             /\ Disponible(reservas, r.sala_id, r.fecha_inicio, r.fecha_fin, ahora)
             /\ \E j \in DOMAIN reservas :
                  /\ j # r.id
                  /\ reservas[j].sala_id = r.sala_id
                  /\ reservas[j].estado = "Activa"

\* Task h runs a step of its repository call from the given await point.
PasoDe(h, punto, ops) ==
    pc[h] = punto /\ llamada[h].op \in ops /\ pc'[h] # pc[h]

\* C22: in both implementations actualizar(r) and eliminar(id) on an id that is
\* not in the map return NoEncontrada and leave the map as it was (actualizar
\* never inserts); the file repository does not rewrite its file.
C22_AusenteSinEfecto ==
    [][\A h \in Hilos :
         (/\ PasoDe(h, "inicio", {"actualizar", "eliminar"})
          /\ llamada[h].id \notin DOMAIN reservas)
         => /\ pc'[h] = "libre"
            /\ resultado'[h] = NoEncontrada
            /\ reservas' = reservas
            /\ archivo' = archivo]_vars

\* C22 witness: a call of the file repository returned NoEncontrada while the
\* cache holds a reservation and the file holds its JSON.
C22_Testigo ==
    \E h \in Hilos :
        /\ repo = "File"
        /\ resultado[h] = NoEncontrada
        /\ DOMAIN reservas # {}
        /\ archivo = ArchivoJson(reservas)

\* C23: in the file repository, when calls run one at a time, every guardar,
\* actualizar and eliminar that returns Ok leaves a file from which init()
\* loads exactly the cache, field by field: a saved or updated reservation is
\* read back equal (status included) and a deleted id is absent; and init()
\* stores in the cache exactly what the file deserialises to.
C23_IdaYVuelta ==
    [][\A h \in Hilos :
         /\ PasoDe(h, "escribir", {"guardar", "actualizar", "eliminar"})
            => /\ pc'[h] = "libre"
               /\ resultado'[h].tipo = "Ok"
               /\ archivo'.estado = "Json"
               /\ Deserializar(archivo'.datos) = reservas'
               /\ \A r \in llamada[h].arg :
                    RepoObtener(Deserializar(archivo'.datos), r.id) = {r}
               /\ llamada[h].op = "eliminar"
                    => llamada[h].id \notin DOMAIN Deserializar(archivo'.datos)
         /\ PasoDe(h, "cargar", {"init"})
            => /\ archivo.estado = "Json"
               /\ reservas' = Deserializar(archivo.datos)
               /\ \A k \in DOMAIN reservas' :
                    SerializarReserva(reservas'[k]) = archivo.datos[k]]_vars

\* C23 witness: after a Cancelada reservation was written, the file
\* deserialises to the cache.
C23_Testigo ==
    /\ repo = "File"
    /\ \A h \in Hilos : pc[h] = "libre"
    /\ archivo.estado = "Json"
    /\ Deserializar(archivo.datos) = reservas
    /\ 2 \in DOMAIN reservas
    /\ reservas[2].estado = "Cancelada"

\* C24: init() with no file returns Ok and leaves the cache as it is (empty
\* on a new instance); init() on a file that cannot be read or parsed returns
\* an ErrorRepositorio and leaves the cache as it is.
C24_InitSinArchivoOIlegible ==
    [][\A h \in Hilos :
         PasoDe(h, "inicio", {"init"})
         => /\ archivo' = archivo
            /\ reservas' = reservas
            /\ archivo.estado = "NoExiste"
                 => pc'[h] = "libre" /\ resultado'[h].tipo = "Ok"
            /\ archivo.estado \in {"Ilegible", "Corrupto"}
                 => pc'[h] = "libre" /\ resultado'[h].tipo = "ErrorRepositorio"
            /\ archivo.estado = "Json" => pc'[h] = "cargar"]_vars

\* C24 witness: init() returned the parse error and the cache is empty.
C24_Testigo ==
    \E h \in Hilos :
        /\ resultado[h] = ErrorRepositorio(MsgErrorParsear)
        /\ archivo = ArchivoCorrupto
        /\ reservas = <<>>

\* C25: a write of the file repository changes the cache and releases the
\* lock before its disk write, and the disk write stores the copy the task
\* took, not the cache of that moment; so the writes of two tasks interleave
\* and the last one to complete decides the file.
C25_EscribeSuCopia ==
    [][\A h \in Hilos :
         /\ (repo = "File" /\ PasoDe(h, "inicio", {"guardar", "actualizar", "eliminar"})
               /\ reservas' # reservas)
            => pc'[h] = "copiar" /\ archivo' = archivo
         /\ PasoDe(h, "copiar", {"guardar", "actualizar", "eliminar"})
            => pc'[h] = "escribir" /\ copia'[h] = reservas /\ archivo' = archivo
         /\ PasoDe(h, "escribir", {"guardar", "actualizar", "eliminar"})
            => /\ archivo' = ArchivoJson(copia[h])
               /\ reservas' = reservas
               /\ pc'[h] = "libre"
               /\ resultado'[h].tipo = "Ok"]_vars

\* C25 witness: both tasks returned Ok, the cache holds two reservations and
\* the file holds only one of them.
C25_Testigo ==
    /\ repo = "File"
    /\ \A h \in Hilos : pc[h] = "libre" /\ resultado[h].tipo = "Ok"
    /\ DOMAIN reservas = {1, 2}
    /\ archivo.estado = "Json"
    /\ Cardinality(DOMAIN archivo.datos) = 1

\* Keys whose entry differs between two maps.
Cambiadas(m, n) ==
    {k \in DOMAIN m \cup DOMAIN n :
        \/ k \notin DOMAIN m
        \/ k \notin DOMAIN n
        \/ m[k] # n[k]}

ReservaTemp(ll, t) ==
    FromExisting(0, ll.sala_id, "temp_user", ll.fecha_inicio, ll.fecha_fin,
                 "Activa", t)

\* C29: for every repository state and candidate (sala, inicio, fin) the
\* answer verificar_disponibilidad computes from listar_por_sala_y_rango is
\* the answer of a full scan: available iff no stored reservation se_solapa_con
\* the transient Activa candidate; the pre-filter drops no overlapping one.
C29_PrefiltroCorrecto ==
    \A h \in Hilos :
        (pc[h] = "libre" /\ llamada[h].op = "verificar_disponibilidad")
        => LET temp == ReservaTemp(llamada[h], ahora)
               solapan == {j \in DOMAIN reservas : SeSolapaCon(temp, reservas[j])}
           IN /\ resultado[h] = Booleano(solapan = {})
              /\ \A j \in solapan :
                   reservas[j] \in RepoListarPorSalaYRango(
                       reservas, llamada[h].sala_id,
                       llamada[h].fecha_inicio, llamada[h].fecha_fin)

\* C29 witness: the candidate is refused because of a stored Activa
\* reservation that starts before the candidate does.
C29_Testigo ==
    \E h \in Hilos :
        /\ pc[h] = "libre"
        /\ llamada[h].op = "verificar_disponibilidad"
        /\ resultado[h] = Booleano(FALSE)
        /\ \E j \in DOMAIN reservas :
             /\ SeSolapaCon(ReservaTemp(llamada[h], ahora), reservas[j])
             /\ reservas[j].fecha_inicio < llamada[h].fecha_inicio

\* C30: obtener, listar, listar_por_sala, listar_por_usuario,
\* listar_por_sala_y_rango and verificar_disponibilidad leave the map and the
\* file as they are, and the transient reserva of verificar_disponibilidad
\* (id "temp") is never stored.
C30_LecturasSinEfecto ==
    [][\A h \in Hilos :
         PasoDe(h, "inicio", OpsLectura)
         => /\ reservas' = reservas
            /\ archivo' = archivo
            /\ pc'[h] = "libre"
            /\ 0 \notin DOMAIN reservas'
            /\ \A k \in DOMAIN reservas' : reservas'[k].usuario_id # "temp_user"]_vars

\* C30 witness: verificar_disponibilidad answered false on a file repository
\* whose cache and file hold the blocking reservation.
C30_Testigo ==
    \E h \in Hilos :
        /\ repo = "File"
        /\ pc[h] = "libre"
        /\ resultado[h] = Booleano(FALSE)
        /\ DOMAIN reservas # {}
        /\ archivo = ArchivoJson(reservas)

\* C27: the statuses the adapter gives to a validation error, a not-found
\* error and an infrastructure error returned by crear_reserva,
\* cancelar_reserva or completar_reserva have three different codes.
C27_CodigosDistintos ==
    \A h \in Hilos, op \in OpsGrpc :
        (pc[h] = "libre" /\ resultado[h].tipo \in {"Validacion", "NoEncontrada",
                                                    "ErrorRepositorio"})
        => \A otro \in {Validacion(<<MsgSalaNoExiste>>), NoEncontrada,
                        ErrorRepositorio(MsgErrorEscribir)} :
             otro.tipo # resultado[h].tipo
             => GrpcStatus(op, otro).code # GrpcStatus(op, resultado[h]).code

\* C28: when the repository or lookup call a service operation is about to
\* make fails, the operation returns at once with an ErrorRepositorio: it
\* makes no further repository call, builds and stores nothing more, and
\* does not make the failed call again.
C28_FalloSinReintento ==
    [][\A h \in Hilos :
         (Aplica(h) /\ <<pc[h], resultado[h]>>' # <<pc[h], resultado[h]>>)
         => /\ pc'[h] = "libre"
            /\ resultado'[h] = ErrorDeFalla(llamada[h].falla)
            /\ resultado'[h].tipo = "ErrorRepositorio"
            /\ uuids' = uuids
            /\ exitos' = exitos
            /\ llamada[h].falla \notin {"guardar", "actualizar"}
                 => reservas' = reservas]_vars

\* C28 witness: a call returned the error of a failed write while a
\* reservation stored by an earlier call is still Activa.
C28_Testigo ==
    \E h \in Hilos :
        /\ pc[h] = "libre"
        /\ resultado[h] = ErrorRepositorio(MsgErrorEscribir)
        /\ \E i \in DOMAIN reservas : reservas[i].estado = "Activa"
        /\ \A i \in Ids : exitos[i] = 0

\* C31: every reservation stored through the service has a non-empty
\* sala_id and usuario_id, fecha_fin after fecha_inicio and a duration from
\* 15 minutes to 8 hours, whatever its status: cancelar_reserva and
\* completar_reserva keep these.
C31_AlmacenadasValidas ==
    \A i \in DOMAIN reservas :
        /\ ~TrimEsVacio(reservas[i].sala_id)
        /\ ~TrimEsVacio(reservas[i].usuario_id)
        /\ reservas[i].fecha_fin > reservas[i].fecha_inicio
        /\ reservas[i].fecha_fin - reservas[i].fecha_inicio >= MinDuracionMinutos
        /\ reservas[i].fecha_fin - reservas[i].fecha_inicio <= MaxDuracionHoras * 60

\* C31 witness: a Cancelada reservation of exactly 8 hours and a Completada
\* one of exactly 15 minutes are stored.
C31_Testigo ==
    \E i, j \in DOMAIN reservas :
        /\ reservas[i].estado = "Cancelada"
        /\ reservas[i].fecha_fin - reservas[i].fecha_inicio = MaxDuracionHoras * 60
        /\ reservas[j].estado = "Completada"
        /\ reservas[j].fecha_fin - reservas[j].fecha_inicio = MinDuracionMinutos

\* C33: when cancelar_reserva or completar_reserva has loaded a reservation
\* and eliminar removes it before the service's actualizar, actualizar
\* returns NoEncontrada, the service call returns NoEncontrada and the id
\* stays absent: no lifecycle step puts a removed reservation back.
C33_SinResurreccion ==
    [][/\ DOMAIN reservas' \subseteq DOMAIN reservas
       /\ \A h \in Hilos :
            (/\ pc[h] = "actualizar"
             /\ pc'[h] # pc[h]
             /\ \E r \in reserva[h] : r.id \notin DOMAIN reservas)
            => /\ pc'[h] = "libre"
               /\ resultado'[h] = NoEncontrada
               /\ reservas' = reservas
               /\ exitos' = exitos]_vars

\* C33 witness: a lifecycle call holds the transitioned copy of a
\* reservation that the other task's eliminar, which returned Ok, has removed.
C33_Testigo ==
    \E g, h \in Hilos :
        /\ g # h
        /\ pc[h] = "actualizar"
        /\ \E r \in reserva[h] : r.id \notin DOMAIN reservas
        /\ pc[g] = "libre"
        /\ resultado[g] = OkRepo({})

\* C34: when save_to_file fails inside guardar, actualizar or eliminar of
\* the file repository, the call returns an ErrorRepositorio and the change
\* it made to the cache stays: a crear_reserva that returns the error leaves
\* its Activa reservation in the cache, where it makes
\* verificar_disponibilidad false for its interval.
C34_FalloSinDeshacer ==
    [][\A h \in Hilos :
         (pc[h] # "libre" /\ resultado'[h].tipo = "ErrorRepositorio")
         => /\ archivo' \in {archivo, ArchivoCorrupto}
            /\ pc[h] = "guardar"
                 => \E r \in reserva[h] :
                      /\ r.id \notin DOMAIN reservas
                      /\ RepoObtener(reservas', r.id) = {r}
                      /\ r.estado = "Activa"
                      /\ ~Disponible(reservas', r.sala_id, r.fecha_inicio,
                                     r.fecha_fin, ahora)
            /\ pc[h] = "actualizar"
                 => \E r \in reserva[h] :
                      /\ RepoObtener(reservas', r.id) = {r}
                      /\ reservas[r.id].estado = "Activa"
                      /\ r.estado \in {"Cancelada", "Completada"}
            /\ (pc[h] = "inicio" /\ llamada[h].op = "eliminar")
                 => /\ llamada[h].id \in DOMAIN reservas
                    /\ llamada[h].id \notin DOMAIN reservas']_vars

\* C34 witness: verificar_disponibilidad returned false because of the only
\* reservation in the cache, an Activa one whose crear_reserva returned the
\* write error: no write ever reached the file.
C34_Testigo ==
    \E h \in Hilos :
        /\ pc[h] = "libre"
        /\ resultado[h] = Booleano(FALSE)
        /\ uuids = 1
        /\ DOMAIN reservas = {1}
        /\ reservas[1].estado = "Activa"
        /\ archivo = SinArchivo

\* Task h completes the disk write of a guardar, actualizar or eliminar.
EscribeArchivo(h) ==
    PasoDe(h, "escribir", {"guardar", "actualizar", "eliminar"})

\* C35: a new file repository instance has an empty cache whatever the file
\* holds, only init() loads the file, and a successful write replaces the
\* file by the cache alone: every reservation the file held that is not in
\* the cache is gone from the file, so a later restart with init() does not
\* bring it back.
C35_SinInitSePierde ==
    [][/\ (reservas' # reservas /\ \A h \in Hilos : pc[h] = "libre" /\ pc'[h] = "libre")
          => reservas' = <<>> /\ archivo' = archivo
       /\ \A h \in Hilos :
            /\ (pc[h] = "inicio" /\ llamada[h].op # "init" /\ repo = "File")
               => DOMAIN reservas' \subseteq
                    DOMAIN reservas \cup {r.id : r \in llamada[h].arg}
            /\ EscribeArchivo(h)
               => /\ archivo' = ArchivoJson(reservas)
                  /\ \A k \in DOMAIN archivo.datos \ DOMAIN reservas :
                       k \notin DOMAIN Deserializar(archivo'.datos)
            /\ PasoDe(h, "cargar", {"init"})
               => reservas' = Deserializar(archivo.datos)]_vars

\* C35 witness: the file held reservation 1 only; a guardar of
\* reservation 2 is about to write its copy of a cache that never loaded
\* the file.
C35_Testigo ==
    \E h \in Hilos :
        /\ repo = "File"
        /\ pc[h] = "escribir"
        /\ llamada[h].op = "guardar"
        /\ DOMAIN copia[h] = {2}
        /\ archivo.estado = "Json"
        /\ DOMAIN archivo.datos = {1}

\* C36: with the in-memory repository a crear_reserva call that returns an
\* error (room or user lookup, entity rules, interval taken) has changed
\* nothing in the repository: none of its steps but the final guardar of a
\* call that returns Ok touches the map.
C36_ErrorSinCambio ==
    [][\A h \in Hilos :
         (/\ repo = "InMemory"
          /\ llamada[h].op = "crear_reserva"
          /\ pc'[h] # pc[h]
          /\ resultado'[h].tipo # "Ok")
         => /\ reservas' = reservas
            /\ pc'[h] = "libre" => resultado'[h].tipo = "Validacion"]_vars

\* C36 witness: a crear_reserva was refused for its interval after its
\* reservation was built: an id was used and the only stored reservation is
\* the earlier one.
C36_Testigo ==
    \E h \in Hilos :
        /\ repo = "InMemory"
        /\ pc[h] = "libre"
        /\ resultado[h] = Validacion(<<MsgNoDisponible>>)
        /\ uuids = 2
        /\ DOMAIN reservas = {1}

\* C37: verificar_disponibilidad called with fecha_inicio >= fecha_fin
\* returns without error, and returns false exactly when some stored Activa
\* reservation r of the room has r.fecha_inicio < fecha_fin and
\* fecha_inicio < r.fecha_fin (for equal dates: the instant lies strictly
\* inside r), although the interval asked for is empty.
C37_IntervaloVacio ==
    \A h \in Hilos :
        (/\ pc[h] = "libre"
         /\ llamada[h].op = "verificar_disponibilidad"
         /\ llamada[h].fecha_inicio >= llamada[h].fecha_fin)
        => /\ resultado[h].tipo \in {"true", "false"}
           /\ resultado[h].tipo = "false"
                <=> \E j \in DOMAIN reservas :
                      /\ reservas[j].sala_id = llamada[h].sala_id
                      /\ reservas[j].estado = "Activa"
                      /\ reservas[j].fecha_inicio < llamada[h].fecha_fin
                      /\ llamada[h].fecha_inicio < reservas[j].fecha_fin

\* C37 witness: verificar_disponibilidad returned false for an interval
\* whose start is after its end.
C37_Testigo ==
    \E h \in Hilos :
        /\ pc[h] = "libre"
        /\ llamada[h].op = "verificar_disponibilidad"
        /\ llamada[h].fecha_inicio > llamada[h].fecha_fin
        /\ resultado[h] = Booleano(FALSE)

\* C32: a cancel request whose token subject differs from the usuario_id of
\* the reservation is rejected by the adapter and the reservation keeps its
\* status.
C32_SoloPropias ==
    [][\A h \in Hilos :
         (/\ pc[h] # "libre"
          /\ llamada[h].op = "cancelar_reserva"
          /\ llamada[h].id \in DOMAIN reservas
          /\ reservas[llamada[h].id].usuario_id # llamada[h].sujeto)
         => /\ llamada[h].id \in DOMAIN reservas'
            /\ reservas'[llamada[h].id].estado = reservas[llamada[h].id].estado
            /\ pc'[h] = "libre" => GrpcStatus("cancelar_reserva", resultado'[h]).code # "Ok"]_vars

\* Task h holds a guard of the lock.
TieneGuarda(h) == candado.escritor = h \/ h \in candado.lectores

\* C38: no repository operation asks for the lock while it holds a guard
\* (guardar, actualizar and eliminar of the file repository have dropped
\* the write guard when save_to_file asks for the read guard), a write
\* guard excludes every other guard, and with a fair lock every call of
\* every task returns: no interleaving blocks a task for ever.
C38_SinBloqueo ==
    /\ [](\A h \in Hilos :
            /\ pc[h] \in {"libre", "inicio", "copiar", "escribir", "cargar"}
                 => ~TieneGuarda(h)
            /\ candado.escritor = h => candado.lectores = {})
    /\ \A h \in Hilos : (pc[h] # "libre") ~> (pc[h] = "libre")

\* C38 witness: a task of the file repository waits for the read guard of
\* save_to_file while the other task holds the write guard.
C38_Testigo ==
    \E g, h \in Hilos :
        /\ g # h
        /\ repo = "File"
        /\ pc[h] = "copiar"
        /\ pc[g] = "escritura"
        /\ candado.escritor = g
        /\ ~PuedeLeer

=============================================================================
